---- MODULE Spec2Model ----
(***************************************************************************)
(* A model of the lead scraper's acquisition pipeline: the token bucket    *)
(* and the per-source rate limiter registry (src/utils/rate_limiter.py),   *)
(* the discovery fan-out, deduplication and cap                            *)
(* (src/discovery/search_engine.py), contact extraction and scoring        *)
(* (src/extractors/contact_extractor.py), the orchestrator's stage         *)
(* sequence (src/main.py) and the pairing of profiles with contact results *)
(* at export (src/export/export_manager.py).                               *)
(*                                                                         *)
(* The program runs on one asyncio event loop: coroutines interleave only  *)
(* at an await that suspends.  One action of the model is the code between *)
(* two suspension points.                                                  *)
(***************************************************************************)
EXTENDS Integers, Sequences, FiniteSets, TLC

VARIABLES
    \* ---- rate limiter (src/utils/rate_limiter.py)
    now,          \* time.time(), in whole seconds
    buckets,      \* RateLimiter._buckets: source name -> TokenBucket
    pc,           \* per caller: "idle", "sleeping" (in asyncio.sleep), "returned"
    call,         \* per caller: the request it is in: [op, source, tokens]
    wake_at,      \* per caller: the time its asyncio.sleep ends
    calls,        \* number of requests issued so far
    last_call,    \* the latest TokenBucket.acquire: [caller, op, source, tokens, first, ok]
    granted       \* history: per source, the tokens granted so far (in sixtieths)

rlVars == <<now, buckets, pc, call, wake_at, calls, last_call, granted>>

VARIABLES
    \* ---- _deduplicate_leads and the cap, applied to given lists
    dd_pc,        \* "input", "deduplicated", "deduplicated_twice", "limited"
    dd_leads,     \* the input list of leads
    dd_limit,     \* the limit
    dd_unique,    \* _deduplicate_leads(dd_leads)
    dd_twice,     \* _deduplicate_leads(dd_unique)
    dd_final      \* unique_leads[:limit]

ddVars == <<dd_pc, dd_leads, dd_limit, dd_unique, dd_twice, dd_final>>

VARIABLES
    \* ---- SearchEngine.search_businesses (src/discovery/search_engine.py)
    ENABLE_SIMULATION,  \* settings.ENABLE_SIMULATION
    limit,              \* the limit argument
    se_pc,              \* "idle", "gathering" (in asyncio.gather), "returned", "raised"
    task,               \* per adapter: "new", "created", "sleeping" (waiting for a
                        \* token), "fetching" (the simulated API delay), "done", "failed"
    task_wake,          \* per adapter: the time its rate limiter sleep ends
    task_result,        \* per adapter: what gather collects: [ok, leads]
    all_leads,          \* the merged list
    final_leads,        \* the list returned
    warnings,           \* number of "Search error" warnings logged
    finished,           \* history: the adapters in the order their tasks ended
    consumed            \* history: per adapter and bucket, the sixtieths of a token
                        \* the adapter's acquires have taken out of the bucket

seVars == <<ENABLE_SIMULATION, limit, se_pc, task, task_wake, task_result, all_leads,
            final_leads, warnings, finished, consumed>>

VARIABLES
    \* ---- LeadScraperOrchestrator.run_campaign (src/main.py)
    stage,           \* where run_campaign is: "Idle", "Discovering", "Enriching",
                     \* "ExtractingContacts", "Exporting", "Done", "Failed"
    search_results,  \* the entities discovery returned
    profiles,        \* the profiles built so far
    enrich_i,        \* the place in search_results of the enrichment loop
    building,        \* whether run_campaign awaits build_profile
    extract_i,       \* the place in profiles of the contact loop
    with_contacts,   \* the profiles whose contacts the contact loop has stored
    outcome,         \* "running", "export_path", "None" (returned None), "raised"
    camp_log         \* history: the calls run_campaign has made and seen finish

campVars == <<stage, search_results, profiles, enrich_i, building, extract_i,
              with_contacts, outcome, camp_log>>

VARIABLES
    \* ---- ContactExtractor scoring (src/extractors/contact_extractor.py)
    sc_pc,      \* "input", "scored" (after _score_decision_makers), "done"
    sc_input,   \* the ContactExtractionResult as given
    sc_result   \* the ContactExtractionResult as the calls have left it

scVars == <<sc_pc, sc_input, sc_result>>

VARIABLES
    \* ---- ContactExtractor.extract_contacts (src/extractors/contact_extractor.py)
    ex_pc,          \* "idle", "gathering", "returned"
    ex_profiles,    \* the profiles extract_contacts is given
    ex_task,        \* per profile: "created", "running", "done", "failed"
    ex_sub,         \* per profile and extractor: "pending", "done"
    ex_result,      \* per profile: the result container of its task
    valid_results,  \* what extract_contacts returns
    valid_tasks,    \* history: the profile each returned result was built from
    ex_warnings     \* the number of "Contact extraction error" warnings

exVars == <<ex_pc, ex_profiles, ex_task, ex_sub, ex_result, valid_results, valid_tasks,
            ex_warnings>>

VARIABLES
    \* ---- one TokenBucket used directly (src/utils/rate_limiter.py)
    tb_now,       \* time.time(), in whole seconds
    tb_bucket,    \* the TokenBucket, NoBucket before its construction
    tb_pc,        \* per caller: "idle", "sleeping", "returned", "raised"
    tb_call,      \* per caller: the tokens its wait_for_tokens asks for while it sleeps
    tb_wake,      \* per caller: the time its asyncio.sleep ends
    tb_before,    \* history: the bucket as the latest acquire found it
    tb_last,      \* history: the latest acquire: [caller, op, tokens, first, ok, at]
    tb_deducted   \* history: per caller, the tokens deducted for it (in sixtieths)

tbVars == <<tb_now, tb_bucket, tb_pc, tb_call, tb_wake, tb_before, tb_last, tb_deducted>>

VARIABLES
    \* ---- ExportManager.export_campaign (src/export/export_manager.py) and the
    \* ---- pipeline that feeds it
    export_pc,        \* "idle", "discovered", "built", "extracted", "exported"
    export_leads,     \* the leads search_businesses returned
    export_profiles,  \* the profiles argument: one profile per lead
    contact_results,  \* the contact_results argument: what extract_contacts returned
    results_of,       \* history: per contact result, the place in export_profiles of
                      \* the profile it was extracted from
    paired            \* per profile, the place in contact_results of the result
                      \* _find_contact_result returned for it, 0 for None

xpVars == <<export_pc, export_leads, export_profiles, contact_results, results_of, paired>>

vars == <<rlVars, ddVars, seVars, campVars, scVars, exVars, tbVars, xpVars>>

Min(a, b) == IF a <= b THEN a ELSE b
Max(a, b) == IF a >= b THEN a ELSE b

(***************************************************************************)
(* config/constants.py                                                     *)
(***************************************************************************)
RATE_LIMITS ==
    [google_places |-> 100, yelp |-> 5000, linkedin |-> 20, facebook |-> 200,
     instagram |-> 200, twitter |-> 300, news_api |-> 1000]

(***************************************************************************)
(* Token bucket.  tokens is a float in the code; refill_rate is            *)
(* limit_per_minute / 60.0 tokens per second.  The model keeps time in     *)
(* whole seconds and tokens in sixtieths of a token (Unit), so that the    *)
(* refill of one second is the whole number limit_per_minute; the          *)
(* refill_rate field is in sixtieths per second.  Arithmetic is exact.     *)
(***************************************************************************)
Unit == 60
DefaultCapacity == 60
DefaultLimitPerMinute == 60

\* Bounds of the rate limiter model.
NumCallers == 2
MaxCalls == 3
MaxTime == 1

Callers == 1..NumCallers
\* The sources the model's callers ask for: two registered in RATE_LIMITS, one not.
CallSources == {"linkedin", "yellow_pages"}
\* Every source name the model uses: the registered ones and yellow_pages, which
\* the directories adapter asks for and RATE_LIMITS does not list.
AllSources == DOMAIN RATE_LIMITS \cup {"yellow_pages"}

\* TokenBucket.__init__
TokenBucket(capacity, refill_rate, t) ==
    [capacity |-> capacity, tokens |-> capacity * Unit,
     refill_rate |-> refill_rate, last_refill |-> t]

\* The mutant of refill for C23: one token per second whatever the refill rate.
refill_unscaled(b, t) ==
    Min(b.capacity * Unit, b.tokens + (t - b.last_refill) * Unit)

\* min(self.capacity, self.tokens + elapsed * self.refill_rate)
refill(b, t) ==
    Min(b.capacity * Unit, b.tokens + (t - b.last_refill) * b.refill_rate)

\* The mutant of TokenBucket_acquire for C1: last_refill is not advanced, so the
\* same elapsed time is credited again by the next call.
TokenBucket_acquire_stale(b, n, t) ==
    LET refilled == refill(b, t)
        ok == refilled >= n * Unit
    IN  [bucket |-> [b EXCEPT !.tokens = IF ok THEN refilled - n * Unit ELSE refilled],
         ok |-> ok]

\* The mutant of TokenBucket_acquire for C2: the refill is not capped at capacity.
TokenBucket_acquire_uncapped(b, n, t) ==
    LET refilled == b.tokens + (t - b.last_refill) * b.refill_rate
        ok == refilled >= n * Unit
    IN  [bucket |-> [b EXCEPT !.tokens = IF ok THEN refilled - n * Unit ELSE refilled,
                              !.last_refill = t],
         ok |-> ok]

\* The mutant of TokenBucket_acquire for C30: a failed call stamps the bucket and
\* drops the refill.
TokenBucket_acquire_refill_lost(b, n, t) ==
    LET refilled == refill(b, t)
        ok == refilled >= n * Unit
    IN  [bucket |-> [b EXCEPT !.tokens = IF ok THEN refilled - n * Unit ELSE b.tokens,
                              !.last_refill = t],
         ok |-> ok]

\* The mutant of TokenBucket_acquire for C25: a failed call takes what the bucket
\* holds.
TokenBucket_acquire_drains(b, n, t) ==
    LET refilled == refill(b, t)
        ok == refilled >= n * Unit
    IN  [bucket |-> [b EXCEPT !.tokens = IF ok THEN refilled - n * Unit ELSE Min(refilled, 0),
                              !.last_refill = t],
         ok |-> ok]

\* TokenBucket.acquire: refill, stamp, then deduct if enough.  No await inside:
\* one indivisible step of the event loop.
TokenBucket_acquire(b, n, t) ==
    LET refilled == refill(b, t)
        ok == refilled >= n * Unit
    IN  [bucket |-> [b EXCEPT !.tokens = IF ok THEN refilled - n * Unit ELSE refilled,
                              !.last_refill = t],
         ok |-> ok]

\* RateLimiter._init_buckets
init_buckets(t) ==
    [s \in DOMAIN RATE_LIMITS |-> TokenBucket(RATE_LIMITS[s], RATE_LIMITS[s], t)]

\* The mutant of bucket_key for C32: a source RATE_LIMITS does not list is served
\* from the google_places bucket instead of a bucket of its own.
bucket_key_listed_only(source) ==
    IF source \in DOMAIN RATE_LIMITS THEN source ELSE "google_places"

\* The mutant of bucket_key for C3: every source is served from one bucket.
bucket_key_shared(source) == "linkedin"

\* self._buckets[source]: the bucket a source's requests go to.
bucket_key(source) == source

\* The mutant of ensure_bucket for C24: the bucket of a name outside RATE_LIMITS is
\* constructed anew at every request.
ensure_bucket_anew(bs, source, t) ==
    IF source \in DOMAIN RATE_LIMITS
    THEN bs
    ELSE [s \in DOMAIN bs \cup {source} |->
            IF s # source THEN bs[s]
            ELSE TokenBucket(DefaultCapacity, DefaultLimitPerMinute, t)]

\* "if source not in self._buckets: self._buckets[source] = TokenBucket(60, 60/60.0)"
ensure_bucket(bs, source, t) ==
    IF source \in DOMAIN bs
    THEN bs
    ELSE [s \in DOMAIN bs \cup {source} |->
            IF s \in DOMAIN bs THEN bs[s]
            ELSE TokenBucket(DefaultCapacity, DefaultLimitPerMinute, t)]

\* RateLimiter.acquire, and RateLimiter.wait_for_tokens up to the bucket's first
\* acquire: create the default bucket of an unknown source, then acquire from it.
RateLimiter_acquire(bs, source, n, t) ==
    LET k == bucket_key(source)
        bs1 == ensure_bucket(bs, k, t)
        r == TokenBucket_acquire(bs1[k], n, t)
    IN  [buckets |-> [bs1 EXCEPT ![k] = r.bucket], ok |-> r.ok]

\* The capacity a source's bucket has, or will have when first requested.
CapacityOf(source) ==
    IF source \in DOMAIN RATE_LIMITS THEN RATE_LIMITS[source] ELSE DefaultCapacity

\* The refill of one second, in sixtieths of a token.
RateOf(source) ==
    IF source \in DOMAIN RATE_LIMITS THEN RATE_LIMITS[source] ELSE DefaultLimitPerMinute

\* The token counts the model's callers ask of a source.
RequestSizes(source) == {1, CapacityOf(source), CapacityOf(source) + 1}

\* asyncio.sleep(min(tokens / self.refill_rate, 1.0)) in whole seconds: one second
\* when tokens / refill_rate >= 1, otherwise less than the clock's resolution.
sleep_seconds(b, n) == IF n * Unit >= b.refill_rate THEN 1 ELSE 0

NoRequest == [op |-> "none", source |-> "none", tokens |-> 0]
NoCall ==
    [caller |-> 0, op |-> "none", source |-> "none", tokens |-> 0, first |-> FALSE,
     ok |-> FALSE]

InitRateLimiter ==
    /\ now = 0
    /\ buckets = init_buckets(0)
    /\ pc = [p \in Callers |-> "idle"]
    /\ call = [p \in Callers |-> NoRequest]
    /\ wake_at = [p \in Callers |-> 0]
    /\ calls = 0
    /\ last_call = NoCall
    /\ granted = [s \in AllSources |-> 0]

\* time.time() moves on.
Tick ==
    /\ now < MaxTime
    /\ now' = now + 1
    /\ UNCHANGED <<buckets, pc, call, wake_at, calls, last_call, granted>>

\* One TokenBucket.acquire made for caller p, and what the caller does with its
\* result: acquire returns it; wait_for_tokens returns on True and sleeps on False.
\* first: whether this is the request's first attempt.
attempt(p, op, source, n, first) ==
    LET r == RateLimiter_acquire(buckets, source, n, now)
        k == bucket_key(source)
        blocks == ~r.ok /\ op = "wait_for_tokens"
    IN  /\ buckets' = r.buckets
        /\ last_call' = [caller |-> p, op |-> op, source |-> source, tokens |-> n,
                         first |-> first, ok |-> r.ok]
        /\ granted' = IF r.ok THEN [granted EXCEPT ![source] = @ + n * Unit] ELSE granted
        /\ pc' = [pc EXCEPT ![p] = IF blocks THEN "sleeping" ELSE "returned"]
        /\ call' = [call EXCEPT ![p] =
                      IF blocks THEN [op |-> op, source |-> source, tokens |-> n]
                      ELSE NoRequest]
        /\ wake_at' = [wake_at EXCEPT ![p] =
                         IF blocks THEN now + sleep_seconds(r.buckets[k], n) ELSE 0]

\* A caller calls rate_limiter.acquire(source, n): one attempt, True or False.
RateLimiter_acquire_call(p) ==
    /\ pc[p] \in {"idle", "returned"}
    /\ calls < MaxCalls
    /\ \E source \in CallSources : \E n \in RequestSizes(source) :
        attempt(p, "acquire", source, n, TRUE)
    /\ calls' = calls + 1
    /\ UNCHANGED now

\* A caller calls rate_limiter.wait_for_tokens(source, n): the code up to the first
\* suspension, which is the first acquire and, on False, the start of the sleep.
RateLimiter_wait_for_tokens_call(p) ==
    /\ pc[p] \in {"idle", "returned"}
    /\ calls < MaxCalls
    /\ \E source \in CallSources : \E n \in RequestSizes(source) :
        attempt(p, "wait_for_tokens", source, n, TRUE)
    /\ calls' = calls + 1
    /\ UNCHANGED now

\* TokenBucket.wait_for_tokens, one turn of its loop: the sleep is over, acquire again.
TokenBucket_wait_for_tokens_retry(p) ==
    /\ pc[p] = "sleeping"
    /\ now >= wake_at[p]
    /\ attempt(p, "wait_for_tokens", call[p].source, call[p].tokens, FALSE)
    /\ UNCHANGED <<now, calls>>


(***************************************************************************)
(* Rate limiter: the claims.                                               *)
(***************************************************************************)

\* What a source's bucket would hold after a refill at time t; a source with no
\* bucket yet gets a full default bucket at its first request.
Available(bs, t, s) ==
    IF s \in DOMAIN bs THEN refill(bs[s], t) ELSE CapacityOf(s) * Unit

\* C1: no over-admission under any interleaving of acquire and wait_for_tokens
\* calls.  Per source, every step keeps (tokens granted so far + tokens available)
\* within its old value plus the refill of the time the step took, so over any
\* interval the tokens granted are at most those available at its start plus those
\* refilled during it; from the start, at most capacity + elapsed * refill_rate.
C1_NoOverAdmission ==
    /\ [](\A s \in CallSources :
            granted[s] <= CapacityOf(s) * Unit + now * RateOf(s))
    /\ [][\A s \in CallSources :
            granted'[s] + Available(buckets', now', s)
              <= granted[s] + Available(buckets, now, s) + (now' - now) * RateOf(s)]_vars

\* C1's case: two callers contend for one bucket that has granted more than its
\* capacity (a refill took place) and one of them is blocked, a request the bucket
\* could hold.
C1_Witness ==
    \E p \in Callers :
        /\ pc[p] = "sleeping"
        /\ call[p].tokens <= CapacityOf(call[p].source)
        /\ granted[call[p].source] > CapacityOf(call[p].source) * Unit
        /\ last_call.caller # p

C3_Independence ==
    [][/\ \A s \in DOMAIN buckets' :
            (s \notin DOMAIN buckets \/ buckets'[s] # buckets[s])
                => last_call'.source = s
       /\ (/\ calls' = calls + 1
           /\ last_call'.op = "wait_for_tokens"
           /\ Available(buckets, now, last_call'.source) >= last_call'.tokens * Unit)
            => /\ last_call'.ok
               /\ pc'[last_call'.caller] = "returned"]_vars

\* C3's case: a caller sleeps on an exhausted bucket, for a request that bucket can
\* hold, and the latest request, a wait_for_tokens on another source, has returned
\* at its first attempt.
C3_Witness ==
    \E p \in Callers :
        /\ pc[p] = "sleeping"
        /\ call[p].tokens <= CapacityOf(call[p].source)
        /\ Available(buckets, now, call[p].source) < call[p].tokens * Unit
        /\ last_call.op = "wait_for_tokens"
        /\ last_call.source # call[p].source
        /\ last_call.first /\ last_call.ok
        /\ pc[last_call.caller] = "returned"

\* C21: a blocking acquisition of more tokens than the bucket's capacity is detected
\* and fails fast; wait_for_tokens never loops on a request the bucket can never
\* satisfy.  So no caller is ever asleep inside wait_for_tokens for a request of
\* more than its bucket's capacity.
C21_OversizeWaitFailsFast ==
    \A p \in Callers :
        pc[p] = "sleeping" => call[p].tokens <= CapacityOf(call[p].source)

\* C24: the first request for a source name without a bucket creates a bucket of
\* capacity 60 refilled by 1 token per second, and the request acts on it; every
\* later request for the name uses that bucket: its capacity and rate stay, and its
\* tokens are what it held, refilled for the time elapsed, less what the request
\* took.  No bucket is removed or replaced, and no step touches it otherwise.
C24_DefaultBucketCached ==
    [][/\ DOMAIN buckets \subseteq DOMAIN buckets'
       /\ \A s \in DOMAIN buckets' :
            LET taken == IF last_call'.ok THEN last_call'.tokens * Unit ELSE 0
            IN  IF s \notin DOMAIN buckets
                THEN /\ s \notin DOMAIN RATE_LIMITS
                     /\ last_call'.source = s
                     /\ buckets'[s].capacity = 60
                     /\ buckets'[s].refill_rate = 1 * Unit
                     /\ buckets'[s].tokens = 60 * Unit - taken
                ELSE \/ buckets'[s] = buckets[s]
                     \/ /\ last_call'.source = s
                        /\ buckets'[s].capacity = buckets[s].capacity
                        /\ buckets'[s].refill_rate = buckets[s].refill_rate
                        /\ buckets'[s].tokens =
                             Min(buckets[s].capacity * Unit,
                                 buckets[s].tokens
                                   + (now - buckets[s].last_refill) * buckets[s].refill_rate)
                               - taken]_vars

\* C24's case: yellow_pages, a name RATE_LIMITS does not list, has its bucket; an
\* earlier request emptied it and the latest request, for one token, has failed on
\* the same bucket.
C24_Witness ==
    /\ "yellow_pages" \in DOMAIN buckets
    /\ last_call.source = "yellow_pages"
    /\ last_call.tokens = 1
    /\ ~last_call.ok
    /\ granted["yellow_pages"] = 60 * Unit
    /\ buckets["yellow_pages"].tokens < Unit

(***************************************************************************)
(* One TokenBucket used directly: constructed with given arguments, then   *)
(* asked by callers that each make one call, acquire or wait_for_tokens.   *)
(***************************************************************************)
\* Bounds of the single-bucket model.
NumBucketCallers == 2
MaxCallTime == 1

BucketCallers == 1..NumBucketCallers
\* The constructor arguments tried: capacity in tokens, refill_rate in tokens per
\* second.
TestCapacities == {-1, 0, 5, 10}
TestRefillRates == {-1, 0, 5}
\* The token counts asked of the bucket.
TestRequests == {1, 5, 6, 10, 11}
\* Calls start up to MaxCallTime; the clock runs on long enough for every caller to
\* be served a full bucket in turn at the slowest positive rate tried.
BucketHorizon == MaxCallTime + 2 * NumBucketCallers

NoBucket == [capacity |-> 0, tokens |-> 0, refill_rate |-> 0, last_refill |-> -1]
NoAcquire ==
    [caller |-> 0, op |-> "none", tokens |-> 0, first |-> FALSE, ok |-> FALSE, at |-> 0]

InitBucket ==
    /\ tb_now = 0
    /\ tb_bucket = NoBucket
    /\ tb_pc = [p \in BucketCallers |-> "idle"]
    /\ tb_call = [p \in BucketCallers |-> 0]
    /\ tb_wake = [p \in BucketCallers |-> 0]
    /\ tb_before = NoBucket
    /\ tb_last = NoAcquire
    /\ tb_deducted = [p \in BucketCallers |-> 0]

IdleBucket == InitBucket

\* TokenBucket(capacity, refill_rate): __init__ stores what it is given and fills
\* the bucket; it checks nothing.
TokenBucket_construct ==
    /\ tb_bucket = NoBucket
    /\ \E capacity \in TestCapacities, rate \in TestRefillRates :
        tb_bucket' = TokenBucket(capacity, rate * Unit, tb_now)
    /\ UNCHANGED <<tb_now, tb_pc, tb_call, tb_wake, tb_before, tb_last, tb_deducted>>

\* Time passes while every coroutine is suspended: a caller whose sleep is over runs
\* before the clock shows the next second.
bucket_sleep ==
    /\ tb_now < BucketHorizon
    /\ \A p \in BucketCallers : tb_pc[p] = "sleeping" => tb_wake[p] > tb_now
    /\ tb_now' = tb_now + 1
    /\ UNCHANGED <<tb_bucket, tb_pc, tb_call, tb_wake, tb_before, tb_last, tb_deducted>>

\* One acquire on the bucket for caller p and what the caller does with the result:
\* acquire returns it; wait_for_tokens returns on True and on False computes
\* tokens / self.refill_rate, which raises ZeroDivisionError for a rate of 0.0, and
\* sleeps.
bucket_attempt(p, op, n, first) ==
    LET r == TokenBucket_acquire(tb_bucket, n, tb_now)
        failed_wait == ~r.ok /\ op = "wait_for_tokens"
        raises == failed_wait /\ r.bucket.refill_rate = 0
        sleeps == failed_wait /\ ~raises
    IN  /\ tb_bucket' = r.bucket
        /\ tb_before' = tb_bucket
        /\ tb_last' = [caller |-> p, op |-> op, tokens |-> n, first |-> first,
                       ok |-> r.ok, at |-> tb_now]
        /\ tb_deducted' = IF r.ok THEN [tb_deducted EXCEPT ![p] = @ + n * Unit]
                          ELSE tb_deducted
        /\ tb_pc' = [tb_pc EXCEPT ![p] = IF raises THEN "raised"
                                         ELSE IF sleeps THEN "sleeping" ELSE "returned"]
        /\ tb_call' = [tb_call EXCEPT ![p] = IF sleeps THEN n ELSE 0]
        /\ tb_wake' = [tb_wake EXCEPT ![p] =
                         IF sleeps THEN tb_now + sleep_seconds(r.bucket, n) ELSE 0]

\* A caller awaits bucket.acquire(n).
TokenBucket_acquire_call(p) ==
    /\ tb_bucket # NoBucket
    /\ tb_pc[p] = "idle"
    /\ tb_now <= MaxCallTime
    /\ \E n \in TestRequests : bucket_attempt(p, "acquire", n, TRUE)
    /\ UNCHANGED tb_now

\* A caller awaits bucket.wait_for_tokens(n): the code up to the first suspension.
\* The requests tried are those whose sleep, min(n / refill_rate, 1.0), is the whole
\* second, on a bucket whose rate is not negative.
TokenBucket_wait_for_tokens_call(p) ==
    /\ tb_bucket # NoBucket
    /\ tb_pc[p] = "idle"
    /\ tb_now <= MaxCallTime
    /\ tb_bucket.refill_rate >= 0
    /\ \E n \in TestRequests :
        /\ n * Unit >= tb_bucket.refill_rate
        /\ bucket_attempt(p, "wait_for_tokens", n, TRUE)
    /\ UNCHANGED tb_now

\* wait_for_tokens, one turn of its loop: the sleep is over, acquire again.
TokenBucket_wait_for_tokens_turn(p) ==
    /\ tb_pc[p] = "sleeping"
    /\ tb_now >= tb_wake[p]
    /\ bucket_attempt(p, "wait_for_tokens", tb_call[p], FALSE)
    /\ UNCHANGED tb_now

(***************************************************************************)
(* The single bucket: the claims.                                          *)
(***************************************************************************)

\* C22: constructing a TokenBucket with capacity <= 0 or refill_rate <= 0 is
\* rejected; no bucket with a non-positive capacity or refill rate ever exists, in
\* the registry or outside it.
C22_NonPositiveRejected ==
    /\ tb_bucket # NoBucket => (tb_bucket.capacity > 0 /\ tb_bucket.refill_rate > 0)
    /\ \A s \in DOMAIN buckets : buckets[s].capacity > 0 /\ buckets[s].refill_rate > 0

\* C23: refill is linear in elapsed time and capped.  An acquire(n) made t seconds
\* after the bucket held k tokens succeeds iff min(capacity, k + t * refill_rate)
\* >= n; for capacity 10 and 5 tokens per second, one second after the bucket held
\* 0 tokens, acquire(5) succeeds and acquire(6) fails.
C23_RefillLinearCapped ==
    tb_last.op # "none" =>
        LET k == tb_before.tokens
            t == tb_last.at - tb_before.last_refill
            n == tb_last.tokens * Unit
            held == IF k + t * tb_before.refill_rate <= tb_before.capacity * Unit
                    THEN k + t * tb_before.refill_rate
                    ELSE tb_before.capacity * Unit
        IN  /\ tb_last.ok <=> held >= n
            /\ (/\ tb_before.capacity = 10
                /\ tb_before.refill_rate = 5 * Unit
                /\ k = 0
                /\ t = 1)
                => /\ tb_last.tokens = 5 => tb_last.ok
                   /\ tb_last.tokens = 6 => ~tb_last.ok

\* C23's case: the bucket of capacity 10 and 5 tokens per second held 0 tokens, one
\* second passed, and an acquire(5) has just succeeded, leaving 0 tokens again.
C23_Witness ==
    /\ tb_last.op = "acquire"
    /\ tb_last.tokens = 5
    /\ tb_last.ok
    /\ tb_before.capacity = 10
    /\ tb_before.refill_rate = 5 * Unit
    /\ tb_before.tokens = 0
    /\ tb_last.at - tb_before.last_refill = 1
    /\ tb_bucket.tokens = 0

\* C25: a failed acquire(n) changes nothing beyond the refill: afterwards tokens is
\* min(capacity, tokens_before + elapsed * refill_rate), last_refill is the time of
\* the call, capacity and refill_rate are as before and nothing was deducted; a
\* successful call leaves that amount less exactly n.
C25_FailedAcquireOnlyRefills ==
    tb_last.op # "none" =>
        LET elapsed == tb_last.at - tb_before.last_refill
            refilled == Min(tb_before.capacity * Unit,
                            tb_before.tokens + elapsed * tb_before.refill_rate)
        IN  /\ tb_bucket.last_refill = tb_last.at
            /\ tb_bucket.capacity = tb_before.capacity
            /\ tb_bucket.refill_rate = tb_before.refill_rate
            /\ ~tb_last.ok => tb_bucket.tokens = refilled
            /\ tb_last.ok => tb_bucket.tokens = refilled - tb_last.tokens * Unit
            /\ tb_deducted[tb_last.caller] =
                 IF tb_last.ok THEN tb_last.tokens * Unit ELSE 0

\* C25's case: an acquire failed on a bucket that time had refilled in part: the
\* bucket now holds more than before the call, less than the request, and is
\* stamped with the time of the call.
C25_Witness ==
    /\ tb_last.op = "acquire"
    /\ ~tb_last.ok
    /\ tb_last.at > tb_before.last_refill
    /\ tb_bucket.tokens > tb_before.tokens
    /\ tb_bucket.tokens > 0
    /\ tb_bucket.tokens < tb_last.tokens * Unit
    /\ tb_bucket.last_refill = tb_last.at

\* C30: blocking acquisition eventually succeeds.  On a bucket with a positive
\* refill rate, every caller asleep in wait_for_tokens(n) with n <= capacity
\* eventually returns, whatever the other callers ask of the bucket; a caller
\* asleep has had nothing deducted, and a wait_for_tokens returns in the step of
\* an acquire of its own that succeeded and deducted exactly n.
C30_BlockingAcquireReturns ==
    /\ \A p \in BucketCallers :
          (/\ tb_pc[p] = "sleeping"
           /\ tb_bucket.refill_rate > 0
           /\ tb_call[p] <= tb_bucket.capacity) ~> (tb_pc[p] = "returned")
    /\ [](\A p \in BucketCallers : tb_pc[p] = "sleeping" => tb_deducted[p] = 0)
    /\ [][\A p \in BucketCallers :
            (tb_pc[p] # "returned" /\ tb_pc'[p] = "returned")
                => /\ tb_last'.caller = p
                   /\ tb_last'.op = "wait_for_tokens"
                        => /\ tb_last'.ok
                           /\ tb_pc[p] = "sleeping" => tb_last'.tokens = tb_call[p]
                           /\ tb_deducted'[p] = tb_last'.tokens * Unit
                           /\ tb_bucket'.tokens + tb_last'.tokens * Unit
                                = Min(tb_bucket.capacity * Unit,
                                      tb_bucket.tokens
                                        + (tb_now - tb_bucket.last_refill)
                                            * tb_bucket.refill_rate)]_vars

\* C30's case: another caller took the tokens ahead of a wait_for_tokens for the
\* whole capacity; the waiter's attempts failed while the bucket refilled, and it
\* has returned from the attempt that found the bucket full again.
C30_Witness ==
    \E p, q \in BucketCallers :
        /\ p # q
        /\ tb_last.caller = p
        /\ tb_last.op = "wait_for_tokens"
        /\ ~tb_last.first
        /\ tb_last.ok
        /\ tb_last.tokens = tb_bucket.capacity
        /\ tb_pc[p] = "returned"
        /\ tb_deducted[q] > 0
        /\ tb_before.last_refill < tb_last.at
        /\ tb_before.tokens > 0
        /\ tb_before.tokens < tb_last.tokens * Unit
        /\ tb_bucket.refill_rate > 0

(***************************************************************************)
(* Deduplication and cap (src/discovery/search_engine.py).                 *)
(*                                                                         *)
(* A name is a sequence of one-character strings.  A lead is a record of   *)
(* name, business_id and source, the fields the pipeline reads; a          *)
(* business_id is <<source prefix, number>> for f"{prefix}_{number}".      *)
(***************************************************************************)

\* Bounds of the deduplication model.
MaxLeads == 4
MaxLimit == 6

\* str.lower() on one character.
UpperCase ==
    <<"A", "B", "C", "D", "E", "F", "G", "H", "I", "J", "K", "L", "M",
      "N", "O", "P", "Q", "R", "S", "T", "U", "V", "W", "X", "Y", "Z">>

LowerCase ==
    <<"a", "b", "c", "d", "e", "f", "g", "h", "i", "j", "k", "l", "m",
      "n", "o", "p", "q", "r", "s", "t", "u", "v", "w", "x", "y", "z">>

lower_char(c) ==
    IF \E k \in 1..26 : UpperCase[k] = c
    THEN LowerCase[CHOOSE k \in 1..26 : UpperCase[k] = c]
    ELSE c

\* str.lower()
lower(name) == [i \in 1..Len(name) |-> lower_char(name[i])]

\* str.strip(): leading and trailing whitespace removed, inner whitespace kept.
RECURSIVE lstrip(_)
lstrip(name) ==
    IF name # <<>> /\ Head(name) = " " THEN lstrip(Tail(name)) ELSE name

RECURSIVE rstrip(_)
rstrip(name) ==
    IF name # <<>> /\ name[Len(name)] = " "
    THEN rstrip(SubSeq(name, 1, Len(name) - 1))
    ELSE name

strip(name) == rstrip(lstrip(name))

\* normalized_name = lead.name.lower().strip()
normalized_name(lead) == strip(lower(lead.name))

\* The loop of _deduplicate_leads from its i-th lead on.
RECURSIVE deduplicate_from(_, _, _, _)
deduplicate_from(leads, i, seen_names, unique_leads) ==
    IF i > Len(leads)
    THEN unique_leads
    ELSE IF normalized_name(leads[i]) \notin seen_names
         THEN deduplicate_from(leads, i + 1,
                               seen_names \cup {normalized_name(leads[i])},
                               Append(unique_leads, leads[i]))
         ELSE deduplicate_from(leads, i + 1, seen_names, unique_leads)

\* The mutant of deduplicate_leads for C6: a lead whose key was seen replaces the
\* kept one, so the last lead of a key survives.
RECURSIVE deduplicate_keep_last_from(_, _, _)
deduplicate_keep_last_from(leads, i, unique_leads) ==
    IF i > Len(leads)
    THEN unique_leads
    ELSE LET key == normalized_name(leads[i])
             at == {j \in 1..Len(unique_leads) : normalized_name(unique_leads[j]) = key}
         IN  IF at = {}
             THEN deduplicate_keep_last_from(leads, i + 1, Append(unique_leads, leads[i]))
             ELSE deduplicate_keep_last_from(leads, i + 1,
                    [j \in 1..Len(unique_leads) |->
                        IF j \in at THEN leads[i] ELSE unique_leads[j]])

deduplicate_leads_keep_last(leads) == deduplicate_keep_last_from(leads, 1, <<>>)

\* The mutant of deduplicate_leads for C7: duplicates are deleted from the list
\* while it is iterated, so the lead after a deleted one is skipped.
RECURSIVE deduplicate_in_place_from(_, _, _)
deduplicate_in_place_from(leads, i, seen_names) ==
    IF i > Len(leads)
    THEN leads
    ELSE IF normalized_name(leads[i]) \notin seen_names
         THEN deduplicate_in_place_from(leads, i + 1,
                                        seen_names \cup {normalized_name(leads[i])})
         ELSE deduplicate_in_place_from(
                  SubSeq(leads, 1, i - 1) \o SubSeq(leads, i + 1, Len(leads)),
                  i + 1, seen_names)

deduplicate_leads_in_place(leads) == deduplicate_in_place_from(leads, 1, {})

\* SearchEngine._deduplicate_leads
deduplicate_leads(leads) == deduplicate_from(leads, 1, {}, <<>>)

\* Python's seq[:k]: the first k items, or all but the last -k when k < 0.
slice_to(seq, k) ==
    IF k >= 0
    THEN SubSeq(seq, 1, Min(k, Len(seq)))
    ELSE SubSeq(seq, 1, Max(Len(seq) + k, 0))

\* The mutant of limit_unique for C8: the merged list is cut to the limit first
\* and deduplicated after.
limit_unique_cut_first(merged, lim) == deduplicate_leads(slice_to(merged, lim))

\* "unique_leads = self._deduplicate_leads(all_leads); final_leads = unique_leads[:limit]"
limit_unique(merged, lim) == slice_to(deduplicate_leads(merged), lim)

\* The names the deduplication model draws from: case and whitespace variants of
\* three keys ("a", "b", "a b").
TestNames ==
    { <<"A">>, <<"a">>, <<"A", " ">>, <<" ", "a">>, <<"B">>, <<"b">>,
      <<"a", " ", "b">> }

\* One lead per name, and a second lead of another source with the name "A".
TestLeads ==
    { [name |-> n, business_id |-> <<"google_places", 1000>>, source |-> "google_places"] :
        n \in TestNames }
    \cup { [name |-> <<"A">>, business_id |-> <<"yelp", 1000>>, source |-> "yelp"] }

BoundedSeq(S, n) == UNION { [1..k -> S] : k \in 0..n }

InitDedup ==
    /\ dd_pc = "input"
    /\ dd_leads \in BoundedSeq(TestLeads, MaxLeads)
    /\ dd_limit \in 1..MaxLimit
    /\ dd_unique = <<>>
    /\ dd_twice = <<>>
    /\ dd_final = <<>>

\* The deduplication model at rest, for the specifications that do not run it.
IdleDedup ==
    /\ dd_pc = "input"
    /\ dd_leads = <<>>
    /\ dd_limit = 1
    /\ dd_unique = <<>>
    /\ dd_twice = <<>>
    /\ dd_final = <<>>

\* _deduplicate_leads applied to the input.
apply_deduplicate_leads ==
    /\ dd_pc = "input"
    /\ dd_unique' = deduplicate_leads(dd_leads)
    /\ dd_pc' = "deduplicated"
    /\ UNCHANGED <<dd_leads, dd_limit, dd_twice, dd_final>>

\* _deduplicate_leads applied to its own output.
apply_deduplicate_leads_again ==
    /\ dd_pc = "deduplicated"
    /\ dd_twice' = deduplicate_leads(dd_unique)
    /\ dd_pc' = "deduplicated_twice"
    /\ UNCHANGED <<dd_leads, dd_limit, dd_unique, dd_final>>

\* The end of search_businesses applied to the input as the merged list.
apply_limit_unique ==
    /\ dd_pc = "input"
    /\ dd_final' = limit_unique(dd_leads, dd_limit)
    /\ dd_pc' = "limited"
    /\ UNCHANGED <<dd_leads, dd_limit, dd_unique, dd_twice>>

(***************************************************************************)
(* Deduplication and cap: the claims.                                      *)
(***************************************************************************)

\* The key the claims speak of: the name lower-cased and whitespace-trimmed.
KeyOf(lead) == strip(lower(lead.name))

\* The places of a list that hold the first lead of their key.
FirstSeen(leads) ==
    {i \in 1..Len(leads) : \A j \in 1..(i - 1) : KeyOf(leads[j]) # KeyOf(leads[i])}

\* The k-th smallest member of a set of numbers.
KthOf(S, k) == CHOOSE m \in S : Cardinality({x \in S : x <= m}) = k

C7_DedupIdempotent ==
    dd_pc = "deduplicated_twice" => dd_twice = dd_unique

\* C7's case: the first pass dropped leads, and kept more than one.
C7_Witness ==
    /\ dd_pc = "deduplicated_twice"
    /\ Len(dd_unique) < Len(dd_leads)
    /\ Len(dd_unique) > 1

\* C8: the result is the first min(limit, u) leads of the first-seen list of the
\* merged list, u the number of distinct keys: never more than limit leads, and a
\* duplicate takes no slot of the limit.
C8_CapAfterDedup ==
    dd_pc = "limited" =>
        LET u == Cardinality({KeyOf(dd_leads[i]) : i \in 1..Len(dd_leads)})
        IN  /\ Len(dd_final) = Min(dd_limit, u)
            /\ Len(dd_final) <= dd_limit
            /\ \A k \in 1..Len(dd_final) :
                  dd_final[k] = dd_leads[KthOf(FirstSeen(dd_leads), k)]

\* C8's case: the cap binds (more keys than the limit) and a duplicate stands
\* within the first limit leads of the merged list.
C8_Witness ==
    /\ dd_pc = "limited"
    /\ Len(dd_final) = dd_limit
    /\ Cardinality(FirstSeen(dd_leads)) > dd_limit
    /\ \E i \in 1..dd_limit : i \notin FirstSeen(dd_leads)

(***************************************************************************)
(* Discovery fan-out (src/discovery/search_engine.py).                     *)
(*                                                                         *)
(* The four adapters of search_businesses, in the order of search_tasks.   *)
(* A simulated lead's name is f"{prefix} {industry.title()} {i+1}"; the    *)
(* model writes the prefixes "Google Places", "Yelp", "Directory" and      *)
(* "LinkedIn" as the single letters G, Y, D, L and the titled industry as  *)
(* R.  random.randint(1000, 9999) is a choice from RandomIds.              *)
(***************************************************************************)
Adapters == 1..4

adapter_source(i) ==
    CASE i = 1 -> "google_places" [] i = 2 -> "yelp"
      [] i = 3 -> "yellow_pages" [] i = 4 -> "linkedin"

id_prefix(i) ==
    CASE i = 1 -> "google_places" [] i = 2 -> "yelp"
      [] i = 3 -> "directory" [] i = 4 -> "linkedin"

name_prefix(i) ==
    CASE i = 1 -> <<"G">> [] i = 2 -> <<"Y">> [] i = 3 -> <<"D">> [] i = 4 -> <<"L">>

\* limit // 2, limit // 3, limit // 4, limit // 5
adapter_limit(i, lim) ==
    CASE i = 1 -> lim \div 2 [] i = 2 -> lim \div 3
      [] i = 3 -> lim \div 4 [] i = 4 -> lim \div 5

\* range(min(limit, 5)), range(min(limit, 3)), range(min(limit, 2)), range(min(limit, 2))
adapter_cap(i) ==
    CASE i = 1 -> 5 [] i = 2 -> 3 [] i = 3 -> 2 [] i = 4 -> 2

lead_count(i, lim) == Max(0, Min(adapter_limit(i, lim), adapter_cap(i)))

digit(k) ==
    CASE k = 1 -> "1" [] k = 2 -> "2" [] k = 3 -> "3" [] k = 4 -> "4" [] k = 5 -> "5"

IndustryTitle == <<"R">>
RandomIds == {1000, 9999}

\* The leads list one simulated adapter builds; ids[k] is the k-th random number.
simulated_leads(i, lim, ids) ==
    [k \in 1..lead_count(i, lim) |->
        [name |-> name_prefix(i) \o <<" ">> \o IndustryTitle \o <<" ", digit(k)>>,
         business_id |-> <<id_prefix(i), ids[k]>>,
         source |-> adapter_source(i)]]

NoResult == [ok |-> TRUE, leads |-> <<>>]

\* The mutant of gather for C5: asyncio.gather without return_exceptions, which
\* raises the first exception of a task into search_businesses.
gather_fail_fast(results) ==
    [raised |-> \E i \in Adapters : ~results[i].ok, results |-> results]

\* The mutant of gather for C29: the results come in the order the tasks ended.
gather_as_completed(results) ==
    [raised |-> FALSE,
     results |-> [k \in 1..Len(results) |->
                    IF k <= Len(finished) THEN results[finished[k]] ELSE results[k]]]

\* asyncio.gather(*search_tasks, return_exceptions=True): every task's result or
\* exception, in the order of search_tasks; nothing is raised.
gather(results) == [raised |-> FALSE, results |-> results]

\* The loop "for result in results" from its i-th result on.
RECURSIVE combine_from(_, _, _, _)
combine_from(results, i, leads, warned) ==
    IF i > Len(results)
    THEN [all_leads |-> leads, warnings |-> warned]
    ELSE IF results[i].ok
         THEN combine_from(results, i + 1, leads \o results[i].leads, warned)
         ELSE combine_from(results, i + 1, leads, warned + 1)

\* The mutant of combine_results for C4: the loop ends at the first failed result.
RECURSIVE combine_until_error_from(_, _, _, _)
combine_until_error_from(results, i, leads, warned) ==
    IF i > Len(results)
    THEN [all_leads |-> leads, warnings |-> warned]
    ELSE IF results[i].ok
         THEN combine_until_error_from(results, i + 1, leads \o results[i].leads, warned)
         ELSE [all_leads |-> leads, warnings |-> warned + 1]

combine_results_until_error(results) == combine_until_error_from(results, 1, <<>>, 0)

\* "all_leads = []; for result in results: ..."
combine_results(results) == combine_from(results, 1, <<>>, 0)

\* The registry after earlier searches of this process have used up the
\* yellow_pages bucket at time 0.
drained_buckets ==
    [s \in AllSources |->
        IF s \in DOMAIN RATE_LIMITS
        THEN TokenBucket(RATE_LIMITS[s], RATE_LIMITS[s], 0)
        ELSE [TokenBucket(DefaultCapacity, DefaultLimitPerMinute, 0) EXCEPT !.tokens = 0]]

InitDiscovery ==
    /\ now = 0
    /\ \/ /\ buckets = init_buckets(0)
          /\ granted = [s \in AllSources |-> 0]
       \/ /\ buckets = drained_buckets
          /\ granted = [s \in AllSources |->
                          IF s = "yellow_pages" THEN DefaultCapacity * Unit ELSE 0]
    /\ pc = [p \in Callers |-> "idle"]
    /\ call = [p \in Callers |-> NoRequest]
    /\ wake_at = [p \in Callers |-> 0]
    /\ calls = 0
    /\ last_call = NoCall
    /\ ENABLE_SIMULATION \in BOOLEAN
    /\ limit \in 1..MaxLimit
    /\ se_pc = "idle"
    /\ task = [i \in Adapters |-> "new"]
    /\ task_wake = [i \in Adapters |-> 0]
    /\ task_result = [i \in Adapters |-> NoResult]
    /\ all_leads = <<>>
    /\ final_leads = <<>>
    /\ warnings = 0
    /\ finished = <<>>
    /\ consumed = [i \in Adapters |-> [s \in AllSources |-> 0]]

\* The discovery model at rest, for the specifications that do not run it.
IdleDiscovery ==
    /\ ENABLE_SIMULATION = TRUE
    /\ limit = 1
    /\ se_pc = "idle"
    /\ task = [i \in Adapters |-> "new"]
    /\ task_wake = [i \in Adapters |-> 0]
    /\ task_result = [i \in Adapters |-> NoResult]
    /\ all_leads = <<>>
    /\ final_leads = <<>>
    /\ warnings = 0
    /\ finished = <<>>
    /\ consumed = [i \in Adapters |-> [s \in AllSources |-> 0]]

\* search_businesses up to its await: the four coroutines are handed to gather.
search_businesses_call ==
    /\ se_pc = "idle"
    /\ se_pc' = "gathering"
    /\ task' = [i \in Adapters |-> "created"]
    /\ UNCHANGED <<ENABLE_SIMULATION, limit, task_wake, task_result, all_leads,
                   final_leads, warnings, finished, consumed>>
    /\ UNCHANGED rlVars

\* One acquire of adapter i's wait_for_tokens(source, 1) and the code that follows
\* it up to the next suspension: on False the sleep of wait_for_tokens; on True
\* "return []" when simulation is off, else the sleep that simulates the API delay.
adapter_acquire(i) ==
    LET r == RateLimiter_acquire(buckets, adapter_source(i), 1, now)
    IN  /\ buckets' = r.buckets
        /\ last_call' = [caller |-> adapter_source(i), op |-> "wait_for_tokens",
                         source |-> adapter_source(i), tokens |-> 1,
                         first |-> task[i] = "created", ok |-> r.ok]
        /\ granted' = IF r.ok THEN [granted EXCEPT ![adapter_source(i)] = @ + Unit]
                      ELSE granted
        /\ task' = [task EXCEPT ![i] =
                      IF ~r.ok THEN "sleeping"
                      ELSE IF ENABLE_SIMULATION THEN "fetching" ELSE "done"]
        /\ task_wake' = [task_wake EXCEPT ![i] =
                           IF r.ok THEN 0
                           ELSE now + sleep_seconds(r.buckets[bucket_key(adapter_source(i))], 1)]
        /\ finished' = IF r.ok /\ ~ENABLE_SIMULATION THEN Append(finished, i)
                       ELSE finished
        /\ consumed' = [consumed EXCEPT ![i] =
                          [s \in AllSources |->
                              @[s] + Available(buckets, now, s)
                                   - Available(r.buckets, now, s)]]
        /\ UNCHANGED <<now, pc, call, wake_at, calls>>
        /\ UNCHANGED <<ENABLE_SIMULATION, limit, se_pc, task_result, all_leads,
                       final_leads, warnings>>

\* The event loop has run every task that was ready and waits for a timer: time
\* passes only while every unfinished adapter is suspended in a sleep.
adapters_sleep ==
    /\ se_pc = "gathering"
    /\ \A i \in Adapters : task[i] # "created"
    /\ \E i \in Adapters : task[i] \in {"sleeping", "fetching"}
    /\ Tick
    /\ UNCHANGED seVars

\* Adapter i starts: rate_limiter.wait_for_tokens(source, 1), first acquire.
adapter_wait_for_tokens(i) ==
    /\ se_pc = "gathering"
    /\ task[i] = "created"
    /\ adapter_acquire(i)

\* Adapter i's wait_for_tokens loop: the sleep is over, acquire again.
adapter_wait_for_tokens_retry(i) ==
    /\ task[i] = "sleeping"
    /\ now >= task_wake[i]
    /\ adapter_acquire(i)

\* Adapter i builds its simulated leads and returns them.
adapter_return(i) ==
    /\ task[i] = "fetching"
    /\ \E ids \in [1..lead_count(i, limit) -> RandomIds] :
        task_result' = [task_result EXCEPT ![i] =
                          [ok |-> TRUE, leads |-> simulated_leads(i, limit, ids)]]
    /\ task' = [task EXCEPT ![i] = "done"]
    /\ finished' = Append(finished, i)
    /\ UNCHANGED <<ENABLE_SIMULATION, limit, se_pc, task_wake, all_leads, final_leads,
                   warnings, consumed>>
    /\ UNCHANGED rlVars

\* Adapter i's fetch raises an exception.
adapter_raise(i) ==
    /\ task[i] = "fetching"
    /\ task_result' = [task_result EXCEPT ![i] = [ok |-> FALSE, leads |-> <<>>]]
    /\ task' = [task EXCEPT ![i] = "failed"]
    /\ finished' = Append(finished, i)
    /\ UNCHANGED <<ENABLE_SIMULATION, limit, se_pc, task_wake, all_leads, final_leads,
                   warnings, consumed>>
    /\ UNCHANGED rlVars

\* gather returns when every task has finished; search_businesses then merges,
\* deduplicates, cuts to the limit and returns, with no further suspension.
gather_complete ==
    /\ se_pc = "gathering"
    /\ \A i \in Adapters : task[i] \in {"done", "failed"}
    /\ LET g == gather(task_result)
           merged == combine_results([i \in Adapters |-> g.results[i]])
       IN  IF g.raised
           THEN /\ se_pc' = "raised"
                /\ UNCHANGED <<all_leads, final_leads, warnings>>
           ELSE /\ se_pc' = "returned"
                /\ all_leads' = merged.all_leads
                /\ warnings' = warnings + merged.warnings
                /\ final_leads' = limit_unique(merged.all_leads, limit)
    /\ UNCHANGED <<ENABLE_SIMULATION, limit, task, task_wake, task_result, finished,
                   consumed>>
    /\ UNCHANGED rlVars

(***************************************************************************)
(* Discovery fan-out: the claims.                                          *)
(***************************************************************************)
Succeeded == {i \in Adapters : task[i] = "done"}
Failed == {i \in Adapters : task[i] = "failed"}

\* The number of leads adapter i handed to gather.
Contributed(i) == IF task[i] = "done" THEN Len(task_result[i].leads) ELSE 0

Range(seq) == {seq[k] : k \in 1..Len(seq)}

\* C4: when some but not all adapters raise, search_businesses does not fail, and
\* when it returns every adapter has finished, the merged list holds exactly the
\* leads of the adapters that succeeded, and one warning is logged per failed one.
C4_FanOutResilience ==
    (Failed # {} /\ Succeeded # {}) =>
        /\ se_pc # "raised"
        /\ se_pc = "returned" =>
            /\ \A i \in Adapters : task[i] \in {"done", "failed"}
            /\ Len(all_leads)
                 = Contributed(1) + Contributed(2) + Contributed(3) + Contributed(4)
            /\ Range(all_leads)
                 = UNION {Range(task_result[i].leads) : i \in Succeeded}
            /\ warnings = Cardinality(Failed)

\* C4's case: the second adapter has raised, the others have returned leads, the
\* first and the third at least one, and search_businesses has returned.
C4_Witness ==
    /\ se_pc = "returned"
    /\ Failed = {2}
    /\ Contributed(1) > 0 /\ Contributed(3) > 0
    /\ warnings = 1

\* C5: when every adapter fails, search_businesses raises nothing and returns an
\* empty list.
C5_AllAdaptersFail ==
    (\A i \in Adapters : task[i] = "failed") =>
        /\ se_pc # "raised"
        /\ se_pc = "returned" => (final_leads = <<>> /\ all_leads = <<>>)

\* C5's case: all four adapters have raised and search_businesses has returned.
C5_Witness ==
    /\ se_pc = "returned"
    /\ Failed = Adapters
    /\ warnings = 4

\* C9, as claimed: for every limit >= 1, with simulation on and no adapter
\* failing, search_businesses returns a non-empty list.
C9_NonEmptyForEveryLimit ==
    (/\ se_pc = "returned"
     /\ ENABLE_SIMULATION
     /\ limit >= 1
     /\ Succeeded = Adapters) => final_leads # <<>>

\* The leads adapter i gave to the merge: those it returned, none if it raised.
Given(i) == IF task[i] = "done" THEN task_result[i].leads ELSE <<>>

\* C29: the merged list does not depend on the order in which the adapters end.
\* Whatever that order, all_leads is the leads of google_places, yelp, directories
\* and linkedin in this order, each adapter's in the order it built them; the
\* result is the first limit leads of distinct name of that list, so it is the same
\* for the same adapter outputs, and the leads the cap drops stand behind every lead
\* it keeps.
C29_MergeInAdapterOrder ==
    se_pc = "returned" =>
        LET keys == [k \in 1..Len(all_leads) |-> KeyOf(all_leads[k])]
            first == {k \in 1..Len(keys) : \A j \in 1..(k - 1) : keys[j] # keys[k]}
            kept == {k \in first : Cardinality({j \in first : j <= k}) <= limit}
        IN  /\ all_leads = Given(1) \o Given(2) \o Given(3) \o Given(4)
            /\ Len(final_leads) = Cardinality(kept)
            /\ \A k \in kept :
                  final_leads[Cardinality({j \in kept : j <= k})] = all_leads[k]
            /\ \A k \in kept, dropped \in first \ kept : k < dropped

\* C29's case: the linkedin adapter ended first and google_places last, every
\* adapter returned leads, and the cap dropped the linkedin lead.
C29_Witness ==
    /\ se_pc = "returned"
    /\ Succeeded = Adapters
    /\ finished[1] = 4
    /\ finished[4] = 1
    /\ \A i \in Adapters : Contributed(i) > 0
    /\ Len(final_leads) = limit
    /\ Len(all_leads) > limit
    /\ \A k \in 1..Len(final_leads) : final_leads[k].source # "linkedin"

\* The sixtieths of a token the adapters together have taken out of bucket s.
ConsumedFrom(s) == consumed[1][s] + consumed[2][s] + consumed[3][s] + consumed[4][s]

\* C32: every adapter is rate limited by its own source.  An adapter takes tokens
\* from no bucket but the one named after its source; it holds none while it waits
\* and exactly one from then on, so it has been granted exactly one token before it
\* fetches, returns records or raises; a bucket loses tokens only in a step that
\* grants one token to the adapter of its source; and when search_businesses
\* returns, exactly one token has gone from each of the buckets google_places,
\* yelp, yellow_pages and linkedin and none from any other.
C32_OwnBucketOneToken ==
    /\ [](/\ {adapter_source(i) : i \in Adapters}
               = {"google_places", "yelp", "yellow_pages", "linkedin"}
          /\ \A i \in Adapters :
                /\ \A s \in AllSources \ {adapter_source(i)} : consumed[i][s] = 0
                /\ consumed[i][adapter_source(i)]
                     = IF task[i] \in {"fetching", "done", "failed"} THEN 1 * Unit ELSE 0
                /\ task_result[i].leads # <<>> => consumed[i][adapter_source(i)] = 1 * Unit
          /\ se_pc = "returned" =>
                \A s \in AllSources :
                    ConsumedFrom(s) = IF s \in {adapter_source(i) : i \in Adapters}
                                      THEN 1 * Unit ELSE 0)
    /\ [][\A s \in AllSources :
            Available(buckets', now', s) < Available(buckets, now, s) =>
                /\ Available(buckets', now', s) = Available(buckets, now, s) - 1 * Unit
                /\ \E i \in Adapters :
                      /\ adapter_source(i) = s
                      /\ task[i] \in {"created", "sleeping"}
                      /\ task'[i] \in {"fetching", "done"}
                      /\ consumed'[i][s] = consumed[i][s] + 1 * Unit]_vars

\* C32's case: the yellow_pages bucket was empty when the search began, the
\* directories adapter waited for its refill while the other adapters were served
\* from their own buckets; it was then granted its token and returned records, and
\* search_businesses has returned.
C32_Witness ==
    /\ se_pc = "returned"
    /\ Succeeded = Adapters
    /\ granted["yellow_pages"] = (DefaultCapacity + 1) * Unit
    /\ buckets["yellow_pages"].last_refill >= 1
    /\ buckets["linkedin"].last_refill = 0
    /\ Contributed(3) > 0
    /\ \A i \in Adapters : consumed[i][adapter_source(i)] = 1 * Unit

(***************************************************************************)
(* The orchestrator (src/main.py, run_campaign).                           *)
(*                                                                         *)
(* An entity is a number.  The calls run_campaign makes (search,           *)
(* build_profile, the contact extractor, the export) either return or      *)
(* raise; what they compute is not part of this model.                     *)
(***************************************************************************)

\* Bound of the orchestrator model: the most entities discovery returns.
MaxEntities == 3

\* The mutant of enrichment_finished for C10: the loop is left after its first
\* entity.
enrichment_finished_early(i, results) == i > 1

\* "for search_result in search_results" has no entity left.
enrichment_finished(i, results) == i > Len(results)

\* The mutant of no_results for C11: an empty search result is not noticed.
no_results_ignored(results) == FALSE

\* "if not search_results".
no_results(results) == Len(results) = 0

\* "for profile in profiles" has no profile left.
extraction_finished(i, built) == i > Len(built)

InitCampaign ==
    /\ stage = "Idle"
    /\ search_results = <<>>
    /\ profiles = <<>>
    /\ enrich_i = 0
    /\ building = FALSE
    /\ extract_i = 0
    /\ with_contacts = {}
    /\ outcome = "running"
    /\ camp_log = <<>>

\* run_campaign is called: it logs and awaits the search.
run_campaign_call ==
    /\ stage = "Idle"
    /\ stage' = "Discovering"
    /\ camp_log' = Append(camp_log, <<"discover_start", 0>>)
    /\ UNCHANGED <<search_results, profiles, enrich_i, building, extract_i, with_contacts,
                   outcome>>

\* The search returns n entities: none, and run_campaign returns None; some, and
\* it goes on to build their profiles.
search_returns ==
    /\ stage = "Discovering"
    /\ \E n \in 0..MaxEntities :
        /\ search_results' = [k \in 1..n |-> k]
        /\ IF no_results([k \in 1..n |-> k])
           THEN /\ stage' = "Failed"
                /\ outcome' = "None"
                /\ enrich_i' = enrich_i
           ELSE /\ stage' = "Enriching"
                /\ outcome' = outcome
                /\ enrich_i' = 1
    /\ camp_log' = Append(camp_log, <<"discover_end", 0>>)
    /\ UNCHANGED <<profiles, building, extract_i, with_contacts>>

\* The search raises: "except Exception: ... raise".
search_raises ==
    /\ stage = "Discovering"
    /\ stage' = "Failed"
    /\ outcome' = "raised"
    /\ camp_log' = Append(camp_log, <<"discover_raised", 0>>)
    /\ UNCHANGED <<search_results, profiles, enrich_i, building, extract_i, with_contacts>>

\* The enrichment loop awaits build_profile for its next entity.
build_profile_call ==
    /\ stage = "Enriching"
    /\ ~building
    /\ ~enrichment_finished(enrich_i, search_results)
    /\ building' = TRUE
    /\ camp_log' = Append(camp_log, <<"enrich_start", search_results[enrich_i]>>)
    /\ UNCHANGED <<stage, search_results, profiles, enrich_i, extract_i, with_contacts,
                   outcome>>

\* The step of the enrichment loop to its next entity, or out of the loop.
enrichment_next ==
    /\ building' = FALSE
    /\ enrich_i' = enrich_i + 1
    /\ camp_log' = Append(camp_log, <<"enrich_end", search_results[enrich_i]>>)
    /\ IF enrichment_finished(enrich_i + 1, search_results)
       THEN stage' = "ExtractingContacts" /\ extract_i' = 1
       ELSE stage' = stage /\ extract_i' = extract_i
    /\ UNCHANGED <<search_results, with_contacts, outcome>>

\* build_profile returns: "profiles.append(profile)".
build_profile_returns ==
    /\ stage = "Enriching"
    /\ building
    /\ profiles' = Append(profiles, search_results[enrich_i])
    /\ enrichment_next

\* build_profile raises: the error is logged, "continue".
build_profile_raises ==
    /\ stage = "Enriching"
    /\ building
    /\ profiles' = profiles
    /\ enrichment_next

\* The step of the contact loop to its next profile.
extraction_next ==
    /\ stage = "ExtractingContacts"
    /\ ~extraction_finished(extract_i, profiles)
    /\ extract_i' = extract_i + 1
    /\ camp_log' = Append(camp_log, <<"extract", profiles[extract_i]>>)
    /\ UNCHANGED <<stage, search_results, profiles, enrich_i, building, outcome>>

\* The body of the contact loop: the four calls of the contact extractor return
\* and "profile.contacts = scored_contacts".
extract_contacts_returns ==
    /\ extraction_next
    /\ with_contacts' = with_contacts \cup {profiles[extract_i]}

\* One of the four calls raises: the error is logged, "continue".
extract_contacts_raises ==
    /\ extraction_next
    /\ with_contacts' = with_contacts

\* The contact loop is over: the totals are logged, then "Step 4: Exporting".
extraction_done ==
    /\ stage = "ExtractingContacts"
    /\ extraction_finished(extract_i, profiles)
    /\ stage' = "Exporting"
    /\ UNCHANGED <<search_results, profiles, enrich_i, building, extract_i,
                   with_contacts, outcome, camp_log>>

\* Summing the contacts and the decision makers of the profiles raises:
\* "except Exception: ... raise".
extraction_totals_raise ==
    /\ stage = "ExtractingContacts"
    /\ extraction_finished(extract_i, profiles)
    /\ stage' = "Failed"
    /\ outcome' = "raised"
    /\ UNCHANGED <<search_results, profiles, enrich_i, building, extract_i,
                   with_contacts, camp_log>>

\* create_campaign_export returns: the summary is printed, "return export_path".
export_returns ==
    /\ stage = "Exporting"
    /\ stage' = "Done"
    /\ outcome' = "export_path"
    /\ camp_log' = Append(camp_log, <<"export", 0>>)
    /\ UNCHANGED <<search_results, profiles, enrich_i, building, extract_i, with_contacts>>

\* create_campaign_export raises: "except Exception: ... raise".
export_raises ==
    /\ stage = "Exporting"
    /\ stage' = "Failed"
    /\ outcome' = "raised"
    /\ camp_log' = Append(camp_log, <<"export", 0>>)
    /\ UNCHANGED <<search_results, profiles, enrich_i, building, extract_i, with_contacts>>

NextCampaign ==
    \/ run_campaign_call
    \/ search_returns
    \/ search_raises
    \/ build_profile_call
    \/ build_profile_returns
    \/ build_profile_raises
    \/ extract_contacts_returns
    \/ extract_contacts_raises
    \/ extraction_done
    \/ extraction_totals_raise
    \/ export_returns
    \/ export_raises

(***************************************************************************)
(* The orchestrator: the claims.                                           *)
(***************************************************************************)
StageOrder ==
    <<"Idle", "Discovering", "Enriching", "ExtractingContacts", "Exporting", "Done">>

\* The places of the log that hold an event of one kind.
LogPlaces(kind) == {k \in 1..Len(camp_log) : camp_log[k][1] = kind}

\* Whether event ev stands in the log before place k.
LoggedBefore(ev, k) == \E j \in 1..(k - 1) : camp_log[j] = ev

\* C10: the stage changes only to the next stage of Idle, Discovering, Enriching,
\* ExtractingContacts, Exporting, Done, or to Failed, and never leaves Done or
\* Failed; an enrichment starts only after discovery has ended; a contact
\* extraction starts only after the enrichment of every discovered entity has
\* ended; the export is called only after the contact extraction of every profile;
\* and a run that can take no further step is in Done or in Failed.
C10_StagesInOrder ==
    /\ [][stage' # stage =>
            \/ \E k \in 1..(Len(StageOrder) - 1) :
                  stage = StageOrder[k] /\ stage' = StageOrder[k + 1]
            \/ stage \notin {"Done", "Failed"} /\ stage' = "Failed"]_vars
    /\ [](\A k \in LogPlaces("enrich_start") : LoggedBefore(<<"discover_end", 0>>, k))
    /\ [](\A k \in LogPlaces("extract") :
            \A e \in Range(search_results) : LoggedBefore(<<"enrich_end", e>>, k))
    /\ [](\A k \in LogPlaces("export") :
            \A e \in Range(profiles) : LoggedBefore(<<"extract", e>>, k))
    /\ [](stage \in {"Done", "Failed"} \/ ENABLED NextCampaign)
    /\ []((stage = "Done") <=> (outcome = "export_path"))
    /\ []((stage = "Failed") <=> (outcome \in {"None", "raised"}))

\* C10's case: a run over several entities has gone through every stage to Done,
\* with one entity's profile not built.
C10_Witness ==
    /\ stage = "Done"
    /\ Len(search_results) >= 2
    /\ Len(profiles) >= 2
    /\ Len(profiles) < Len(search_results)

\* C11: once the search has returned no entity, the campaign is Failed by
\* returning None after the warning "No businesses found in search" (outcome
\* "None"), and it has built no profile, extracted no contact and exported nothing.
C11_NoResultsFails ==
    (LogPlaces("discover_end") # {} /\ search_results = <<>>) =>
        /\ stage = "Failed"
        /\ outcome = "None"
        /\ profiles = <<>>
        /\ with_contacts = {}
        /\ LogPlaces("enrich_start") = {}
        /\ LogPlaces("extract") = {}
        /\ LogPlaces("export") = {}

\* C11's case: the search was called and returned an empty list, and the run is
\* over.
C11_Witness ==
    /\ camp_log = << <<"discover_start", 0>>, <<"discover_end", 0>> >>
    /\ search_results = <<>>
    /\ stage = "Failed"

\* C12, as claimed: once the enrichment stage is over, every discovered entity has
\* a profile, which is what the export is given, also when the entity's
\* build_profile or contact extraction raised.
C12_EveryEntityCarriedForward ==
    stage \in {"ExtractingContacts", "Exporting", "Done"} =>
        /\ Len(profiles) = Len(search_results)
        /\ Range(profiles) = Range(search_results)

\* The orchestrator model at rest, for the specifications that do not run it.
IdleCampaign == InitCampaign

(***************************************************************************)
(* Contact scoring (src/extractors/contact_extractor.py).                  *)
(*                                                                         *)
(* Strings are sequences of one-character strings; None and the empty      *)
(* string, both false in a Python condition, are <<>>.  A contact carries  *)
(* its id, its place in all_contacts, as the identity of the Python        *)
(* object.                                                                 *)
(***************************************************************************)

\* Bound of the scoring model: the most contacts of a result.
MaxContacts == 3

DECISION_MAKER_TITLES ==
    <<
      <<"C", "E", "O">>,
      <<"C", "h", "i", "e", "f", " ", "E", "x", "e", "c", "u", "t", "i", "v", "e", " ", "O", "f", "f", "i", "c", "e", "r">>,
      <<"P", "r", "e", "s", "i", "d", "e", "n", "t">>, <<"O", "w", "n", "e", "r">>,
      <<"F", "o", "u", "n", "d", "e", "r">>,
      <<"M", "a", "n", "a", "g", "i", "n", "g", " ", "D", "i", "r", "e", "c", "t", "o", "r">>,
      <<"G", "e", "n", "e", "r", "a", "l", " ", "M", "a", "n", "a", "g", "e", "r">>,
      <<"V", "P">>,
      <<"V", "i", "c", "e", " ", "P", "r", "e", "s", "i", "d", "e", "n", "t">>,
      <<"D", "i", "r", "e", "c", "t", "o", "r">>,
      <<"M", "a", "n", "a", "g", "e", "r">>,
      <<"P", "r", "i", "n", "c", "i", "p", "a", "l">>,
      <<"P", "a", "r", "t", "n", "e", "r">>, <<"H", "e", "a", "d", " ", "o", "f">>
    >>

(***************************************************************************)
(* Python floats.  A score is an IEEE double, kept exactly: every double   *)
(* the scoring reaches is a multiple of 2^-57 below 2, written <<hi, lo>>  *)
(* for (hi * 2^28 + lo) * 2^-57.  Sums are rounded as the hardware rounds  *)
(* them, to the nearest double, ties to the even one, so that 0.4 + 0.2    *)
(* and 0.6 differ here as they differ in Python.                           *)
(***************************************************************************)
FloatBase == 2^28

Float_0_0 == <<0, 0>>
Float_0_05 == <<26843545, 161061274>>
Float_0_1 == <<53687091, 53687092>>
Float_0_2 == <<107374182, 107374184>>
Float_0_3 == <<161061273, 161061272>>
Float_0_4 == <<214748364, 214748368>>
Float_0_6 == <<322122547, 53687088>>
Float_1_0 == <<2^29, 0>>

\* The distance between neighbouring doubles at a value of this high part, in
\* units of 2^-57.
float_ulp(hi) ==
    IF hi >= 2^29 THEN 32
    ELSE IF hi >= 2^28 THEN 16
    ELSE IF hi >= 2^27 THEN 8
    ELSE IF hi >= 2^26 THEN 4
    ELSE IF hi >= 2^25 THEN 2
    ELSE 1

\* a + b on doubles: the exact sum, rounded to nearest, ties to even.
float_add(a, b) ==
    LET lo == (a[2] + b[2]) % FloatBase
        hi == a[1] + b[1] + ((a[2] + b[2]) \div FloatBase)
        m == float_ulp(hi)
        r == lo % m
        down == lo - r
        up == IF 2 * r > m \/ (2 * r = m /\ (down \div m) % 2 = 1)
              THEN down + m
              ELSE down
    IN  <<hi + (up \div FloatBase), up % FloatBase>>

\* a >= b and a > b on doubles.
float_ge(a, b) == a[1] > b[1] \/ (a[1] = b[1] /\ a[2] >= b[2])
float_gt(a, b) == a[1] > b[1] \/ (a[1] = b[1] /\ a[2] > b[2])

\* "score += x" under a condition.
add_if(cond, score, x) == IF cond THEN float_add(score, x) ELSE score

\* self.decision_maker_threshold = 0.6
decision_maker_threshold == Float_0_6

\* The score a contact or a result has before it is scored (the default 0.0).
DefaultScore == Float_0_0

\* Python's "sub in text" on strings.
contains(text, sub) ==
    \E k \in 0..(Len(text) - Len(sub)) : SubSeq(text, k + 1, k + Len(sub)) = sub

\* dm_title.lower() of every entry of DECISION_MAKER_TITLES.
dm_titles_lower ==
    [k \in 1..Len(DECISION_MAKER_TITLES) |-> lower(DECISION_MAKER_TITLES[k])]

\* Whether a decision maker title occurs in the lower-cased title.
has_dm_title(title_lower) ==
    \E k \in 1..Len(DECISION_MAKER_TITLES) :
        contains(title_lower, dm_titles_lower[k])

\* any(word in title_lower for word in words)
any_word_in(title_lower, words) == \E word \in words : contains(title_lower, word)

\* "score += x", n times.
RECURSIVE add_times(_, _, _)
add_times(n, score, x) ==
    IF n = 0 THEN score ELSE add_times(n - 1, float_add(score, x), x)

\* The number of the words that occur in the lower-cased title.
words_in(title_lower, words) ==
    Cardinality({word \in words : contains(title_lower, word)})

\* The mutant of title_score for C28: every entry and every keyword that occurs in
\* the title adds its weight.
title_score_per_match(title) ==
    IF title = <<>>
    THEN Float_0_0
    ELSE LET title_lower == lower(title)
             s1 == add_times(
                       words_in(title_lower,
                                {dm_titles_lower[k] :
                                    k \in 1..Len(DECISION_MAKER_TITLES)}),
                       Float_0_0, Float_0_4)
             s2 == add_times(
                       words_in(title_lower,
                                {<<"m", "a", "n", "a", "g", "e", "r">>,
                                 <<"d", "i", "r", "e", "c", "t", "o", "r">>,
                                 <<"h", "e", "a", "d">>}),
                       s1, Float_0_2)
         IN  add_times(
                 words_in(title_lower,
                          {<<"s", "e", "n", "i", "o", "r">>,
                           <<"l", "e", "a", "d">>,
                           <<"p", "r", "i", "n", "c", "i", "p", "a", "l">>}),
                 s2, Float_0_1)

\* "Title-based scoring" of _score_decision_makers, from score = 0.0.
title_score(title) ==
    IF title = <<>>
    THEN Float_0_0
    ELSE LET title_lower == lower(title)
             s1 == add_if(has_dm_title(title_lower), Float_0_0, Float_0_4)
             s2 == add_if(any_word_in(title_lower,
                              {<<"m", "a", "n", "a", "g", "e", "r">>,
                               <<"d", "i", "r", "e", "c", "t", "o", "r">>,
                               <<"h", "e", "a", "d">>}),
                          s1, Float_0_2)
         IN  add_if(any_word_in(title_lower,
                        {<<"s", "e", "n", "i", "o", "r">>,
                         <<"l", "e", "a", "d">>,
                         <<"p", "r", "i", "n", "c", "i", "p", "a", "l">>}),
                    s2, Float_0_1)

\* source_scores.get(contact.source, 0.0)
source_score(source) ==
    CASE source = "linkedin" -> Float_0_3
      [] source = "website" -> Float_0_2
      [] source = "news_article" -> Float_0_2
      [] source = "better_business_bureau" -> Float_0_1
      [] OTHER -> Float_0_0

\* The score of a contact before min(score, 1.0): the title, then the source,
\* then "Contact completeness scoring", added in the order of the code.
raw_score(contact) ==
    LET s4 == float_add(title_score(contact.title), source_score(contact.source))
        s5 == add_if(contact.email # <<>>, s4, Float_0_1)
        s6 == add_if(contact.phone # <<>>, s5, Float_0_05)
    IN  add_if(contact.linkedin_url # <<>>, s6, Float_0_1)

\* The mutant of capped_score for C14: the score is not capped.
capped_score_uncapped(score) == score

\* min(score, 1.0)
capped_score(score) == IF float_gt(score, Float_1_0) THEN Float_1_0 ELSE score

\* The mutant of is_decision_maker for C15: the threshold itself is excluded.
is_decision_maker_above(contact) ==
    float_gt(contact.decision_maker_score, decision_maker_threshold)

\* The mutant of is_decision_maker for C17: the comparison is turned around.
is_decision_maker_reversed(contact) ==
    float_ge(decision_maker_threshold, contact.decision_maker_score)

\* contact.decision_maker_score >= self.decision_maker_threshold
is_decision_maker(contact) ==
    float_ge(contact.decision_maker_score, decision_maker_threshold)

\* The mutant of insert_by_score for C18: a contact goes before the contacts of
\* equal score.
insert_by_score_unstable(sorted, contact) ==
    LET before == {k \in 1..Len(sorted) :
                     \A j \in 1..k :
                        float_gt(sorted[j].decision_maker_score,
                                 contact.decision_maker_score)}
        n == Cardinality(before)
    IN  SubSeq(sorted, 1, n) \o <<contact>> \o SubSeq(sorted, n + 1, Len(sorted))

\* One step of list.sort(key = score, reverse = True), a stable sort: the contact
\* goes behind every contact of a greater or an equal score.
insert_by_score(sorted, contact) ==
    LET before == {k \in 1..Len(sorted) :
                     \A j \in 1..k :
                        float_ge(sorted[j].decision_maker_score,
                                 contact.decision_maker_score)}
        n == Cardinality(before)
    IN  SubSeq(sorted, 1, n) \o <<contact>> \o SubSeq(sorted, n + 1, Len(sorted))

\* list.sort(key=lambda x: x.decision_maker_score, reverse=True)
RECURSIVE sort_by_score(_, _)
sort_by_score(contacts, sorted) ==
    IF contacts = <<>>
    THEN sorted
    ELSE sort_by_score(Tail(contacts), insert_by_score(sorted, Head(contacts)))

\* _score_decision_makers(result)
score_decision_makers(result) ==
    LET scored == [k \in 1..Len(result.all_contacts) |->
                     [result.all_contacts[k] EXCEPT
                        !.decision_maker_score =
                            capped_score(raw_score(result.all_contacts[k]))]]
    IN  [result EXCEPT
           !.all_contacts = scored,
           !.decision_makers = sort_by_score(SelectSeq(scored, is_decision_maker), <<>>)]

\* The score of a result before min(score, 1.0).
raw_extraction_score(result) ==
    LET complete_contacts ==
            Cardinality({k \in 1..Len(result.all_contacts) :
                           /\ result.all_contacts[k].email # <<>>
                           /\ result.all_contacts[k].title # <<>>})
        s1 == add_if(result.all_contacts # <<>>, Float_0_0, Float_0_3)
        s2 == add_if(result.decision_makers # <<>>, s1, Float_0_4)
        s3 == add_if(Len(result.decision_makers) >= 2, s2, Float_0_1)
        s4 == add_if(complete_contacts > 0, s3, Float_0_2)
    IN  add_if(Len(result.sources_used) >= 2, s4, Float_0_1)

\* _calculate_extraction_score(result)
calculate_extraction_score(result) == capped_score(raw_extraction_score(result))

\* Contact(...) as the dataclass builds it: the score fields at their default.
Contact(title, email, phone, linkedin_url, source) ==
    [id |-> 0, title |-> title, email |-> email, phone |-> phone,
     linkedin_url |-> linkedin_url, source |-> source,
     decision_maker_score |-> DefaultScore]

\* ContactExtractionResult(business_name, business_id) with the contacts and the
\* sources given; a contact's id is its place in all_contacts.
ContactExtractionResult(business_id, contacts, sources_used) ==
    [business_id |-> business_id,
     all_contacts |-> [k \in 1..Len(contacts) |-> [contacts[k] EXCEPT !.id = k]],
     decision_makers |-> <<>>,
     extraction_score |-> DefaultScore,
     sources_used |-> sources_used]

\* The inputs of the scoring model.
TitleCEO == <<"C", "E", "O">>

\* "Senior Lead Director Manager": two entries of DECISION_MAKER_TITLES (Director,
\* Manager), two management keywords and two seniority keywords.
TitleSeveralKeywords ==
    <<"S", "e", "n", "i", "o", "r", " ", "L", "e", "a", "d", " ",
      "D", "i", "r", "e", "c", "t", "o", "r", " ", "M", "a", "n", "a", "g", "e", "r">>

\* "Lead Manager": one entry, one management keyword, one seniority keyword.
TitleLeadManager == <<"L", "e", "a", "d", " ", "M", "a", "n", "a", "g", "e", "r">>

TestTitles ==
    { <<>>, TitleCEO, <<"H", "e", "a", "d">>, <<"M", "a", "n", "a", "g", "e", "r">>,
      <<"P", "r", "i", "n", "c", "i", "p", "a", "l">>,
      <<"C", "l", "e", "r", "k">>,
      <<"L", "e", "a", "d", " ", "M", "a", "n", "a", "g", "e", "r">> }

TestEmail == <<"a", "@", "b", ".", "c">>
TestPhone == <<"5", "5", "5">>
TestUrl == <<"i", "n", "/", "x">>

TestContactSources ==
    {"linkedin", "website", "news_article", "better_business_bureau", ""}

\* Every combination of title, source and populated fields.
TestContacts ==
    { Contact(t, e, ph, u, src) :
        t \in TestTitles, e \in {<<>>, TestEmail}, ph \in {<<>>, TestPhone},
        u \in {<<>>, TestUrl}, src \in TestContactSources }

\* The contacts that follow the first of a list: two of equal score above the
\* threshold and one whose score differs from theirs by rounding only, one just
\* above the threshold, one below it.
TieContacts ==
    { Contact(TitleCEO, <<>>, <<>>, TestUrl, "linkedin"),
      Contact(TitleCEO, TestEmail, <<>>, <<>>, "linkedin"),
      Contact(<<"M", "a", "n", "a", "g", "e", "r">>, <<>>, <<>>, <<>>, "website"),
      Contact(TitleCEO, <<>>, <<>>, <<>>, "news_article"),
      Contact(<<"C", "l", "e", "r", "k">>, <<>>, <<>>, <<>>, "website") }

\* The contacts with the title of several keywords, each scored alone.
KeywordContacts ==
    { Contact(TitleSeveralKeywords, e, ph, u, src) :
        e \in {<<>>, TestEmail}, ph \in {<<>>, TestPhone}, u \in {<<>>, TestUrl},
        src \in {"linkedin", "better_business_bureau", ""} }

TestContactLists ==
    {<<>>} \cup { <<c>> \o rest : c \in TestContacts,
                                 rest \in BoundedSeq(TieContacts, MaxContacts - 1) }
           \cup { <<c>> : c \in KeywordContacts }

TestSourcesUsed == { <<"website">>, <<"website", "social_media">> }

InitScoring ==
    /\ sc_pc = "input"
    /\ sc_input \in { ContactExtractionResult(<<"google_places", 1000>>, cs, su) :
                        cs \in TestContactLists, su \in TestSourcesUsed }
    /\ sc_result = sc_input

\* The scoring model at rest, for the specifications that do not run it.
IdleScoring ==
    /\ sc_pc = "input"
    /\ sc_input = ContactExtractionResult(<<"google_places", 1000>>, <<>>, <<>>)
    /\ sc_result = sc_input

\* self._score_decision_makers(result)
apply_score_decision_makers ==
    /\ sc_pc = "input"
    /\ sc_result' = score_decision_makers(sc_result)
    /\ sc_pc' = "scored"
    /\ UNCHANGED sc_input

\* result.extraction_score = self._calculate_extraction_score(result)
apply_calculate_extraction_score ==
    /\ sc_pc = "scored"
    /\ sc_result' = [sc_result EXCEPT
                       !.extraction_score = calculate_extraction_score(sc_result)]
    /\ sc_pc' = "done"
    /\ UNCHANGED sc_input

(***************************************************************************)
(* Contact scoring: the claims.                                            *)
(***************************************************************************)
\* The ids of the contacts of result.decision_makers.
DecisionMakerIds == {sc_result.decision_makers[j].id :
                        j \in 1..Len(sc_result.decision_makers)}

\* C14: every decision_maker_score and the extraction_score lie in [0, 1], for
\* every title, source, set of populated fields,
\* number of contacts, of decision makers and of sources used.
C14_ScoresWithinBounds ==
    /\ sc_pc \in {"scored", "done"} =>
          \A k \in 1..Len(sc_result.all_contacts) :
              /\ float_ge(sc_result.all_contacts[k].decision_maker_score, Float_0_0)
              /\ float_ge(Float_1_0, sc_result.all_contacts[k].decision_maker_score)
    /\ sc_pc = "done" =>
          /\ float_ge(sc_result.extraction_score, Float_0_0)
          /\ float_ge(Float_1_0, sc_result.extraction_score)

\* C14's case: a contact whose parts sum to more than 1.0 has been scored, and so
\* has a result whose parts sum to more than 1.0.
C14_Witness ==
    /\ sc_pc = "done"
    /\ \E k \in 1..Len(sc_input.all_contacts) :
          float_gt(raw_score(sc_input.all_contacts[k]), Float_1_0)
    /\ float_gt(raw_extraction_score(sc_result), Float_1_0)

\* C15: after _score_decision_makers a contact of all_contacts is in
\* decision_makers exactly when its score is at least 0.6; every decision maker
\* is a contact of all_contacts, and none is listed twice.
C15_DecisionMakersByThreshold ==
    sc_pc \in {"scored", "done"} =>
        /\ \A k \in 1..Len(sc_result.all_contacts) :
              (sc_result.all_contacts[k].id \in DecisionMakerIds)
                  <=> float_ge(sc_result.all_contacts[k].decision_maker_score, Float_0_6)
        /\ \A j \in 1..Len(sc_result.decision_makers) :
              \E k \in 1..Len(sc_result.all_contacts) :
                  sc_result.decision_makers[j] = sc_result.all_contacts[k]
        /\ Cardinality(DecisionMakerIds) = Len(sc_result.decision_makers)

\* C15's case: a contact that scores exactly 0.6 is a decision maker, and a
\* contact of the same result that scores less is none.
C15_Witness ==
    /\ sc_pc = "scored"
    /\ \E k \in 1..Len(sc_result.all_contacts) :
          /\ sc_result.all_contacts[k].decision_maker_score = Float_0_6
          /\ sc_result.all_contacts[k].id \in DecisionMakerIds
    /\ \E k \in 1..Len(sc_result.all_contacts) :
          /\ float_gt(Float_0_6, sc_result.all_contacts[k].decision_maker_score)
          /\ float_gt(sc_result.all_contacts[k].decision_maker_score, Float_0_0)
          /\ sc_result.all_contacts[k].id \notin DecisionMakerIds

\* C16, as claimed: a contact with title "CEO" and a populated email is a decision
\* maker, whatever its source and its other fields.
C16_CeoWithEmailIsDecisionMaker ==
    sc_pc \in {"scored", "done"} =>
        \A k \in 1..Len(sc_result.all_contacts) :
            (/\ sc_result.all_contacts[k].title = TitleCEO
             /\ sc_result.all_contacts[k].email # <<>>)
                => sc_result.all_contacts[k].id \in DecisionMakerIds

\* C17: a contact with no title, no email, no phone and no linkedin_url is no
\* decision maker, whatever its source.
C17_BareContactIsNoDecisionMaker ==
    sc_pc \in {"scored", "done"} =>
        \A k \in 1..Len(sc_result.all_contacts) :
            (/\ sc_result.all_contacts[k].title = <<>>
             /\ sc_result.all_contacts[k].email = <<>>
             /\ sc_result.all_contacts[k].phone = <<>>
             /\ sc_result.all_contacts[k].linkedin_url = <<>>)
                => sc_result.all_contacts[k].id \notin DecisionMakerIds

\* C17's case: a contact with nothing but the best-scoring source has been scored,
\* in a result that has decision makers.
C17_Witness ==
    /\ sc_pc = "scored"
    /\ sc_result.decision_makers # <<>>
    /\ \E k \in 1..Len(sc_result.all_contacts) :
          /\ sc_result.all_contacts[k].title = <<>>
          /\ sc_result.all_contacts[k].email = <<>>
          /\ sc_result.all_contacts[k].phone = <<>>
          /\ sc_result.all_contacts[k].linkedin_url = <<>>
          /\ sc_result.all_contacts[k].source = "linkedin"
          /\ sc_result.all_contacts[k].decision_maker_score = Float_0_3

\* C18: decision_makers is in non-increasing order of score, and decision makers
\* of equal score stand in the order they have in all_contacts.
C18_SortedStable ==
    sc_pc \in {"scored", "done"} =>
        \A i, j \in 1..Len(sc_result.decision_makers) :
            i < j =>
                LET a == sc_result.decision_makers[i]
                    b == sc_result.decision_makers[j]
                IN  /\ float_ge(a.decision_maker_score, b.decision_maker_score)
                    /\ a.decision_maker_score = b.decision_maker_score => a.id < b.id

\* C18's case: three decision makers, two of them of equal score, that stood in
\* all_contacts behind one of a smaller score.
C18_Witness ==
    /\ sc_pc = "scored"
    /\ Len(sc_result.decision_makers) = 3
    /\ sc_result.decision_makers[1].decision_maker_score
          = sc_result.decision_makers[2].decision_maker_score
    /\ float_gt(sc_result.decision_makers[2].decision_maker_score,
                sc_result.decision_makers[3].decision_maker_score)
    /\ sc_result.decision_makers[1] # sc_result.decision_makers[2]
    /\ sc_result.decision_makers[3].id = 1

\* C28: the title signals count once.  A contact whose title holds two entries of
\* DECISION_MAKER_TITLES, two management keywords and two seniority keywords
\* scores what the same contact scores with a title that holds one of each; with
\* nothing but that title its score is 0.4 + 0.2 + 0.1.
C28_TitleSignalsCountOnce ==
    sc_pc \in {"scored", "done"} =>
        \A k \in 1..Len(sc_result.all_contacts) :
            LET contact == sc_result.all_contacts[k]
                single == [sc_input.all_contacts[k] EXCEPT !.title = TitleLeadManager]
            IN  contact.title = TitleSeveralKeywords =>
                    /\ contact.decision_maker_score = capped_score(raw_score(single))
                    /\ (/\ contact.source = ""
                        /\ contact.email = <<>>
                        /\ contact.phone = <<>>
                        /\ contact.linkedin_url = <<>>)
                        => contact.decision_maker_score
                             = float_add(float_add(Float_0_4, Float_0_2), Float_0_1)

\* C28's case: a contact with the title of several keywords and nothing else has
\* been scored and is a decision maker, its score below the cap.
C28_Witness ==
    /\ sc_pc = "scored"
    /\ \E k \in 1..Len(sc_result.all_contacts) :
          /\ sc_result.all_contacts[k].title = TitleSeveralKeywords
          /\ sc_result.all_contacts[k].source = ""
          /\ sc_result.all_contacts[k].email = <<>>
          /\ sc_result.all_contacts[k].phone = <<>>
          /\ sc_result.all_contacts[k].linkedin_url = <<>>
          /\ sc_result.all_contacts[k].id \in DecisionMakerIds
          /\ float_gt(Float_1_0, sc_result.all_contacts[k].decision_maker_score)

(***************************************************************************)
(* Contact extraction (src/extractors/contact_extractor.py,                *)
(* extract_contacts).                                                      *)
(*                                                                         *)
(* A profile is what the extractor reads of it: whether it has a lead at   *)
(* all (the BusinessProfile of src/profiles/profile_builder.py has none),  *)
(* the lead's name, business_id, phone and website, the platforms of       *)
(* social_profiles, directory_listings, and the number of news_articles.   *)
(* One task per profile runs four extractors under gather; each extractor  *)
(* changes the result after its last await only, so it is one step, and    *)
(* the four end in any order.  Time stands still: an extractor takes its   *)
(* token from a bucket that holds enough.                                  *)
(***************************************************************************)

\* Bound of the extraction model: the most profiles of one call.
MaxProfiles == 2

Extractors == {"website", "social_media", "directories", "news"}

\* The random choices of the simulated extractors, cut to one title for each
\* source and to two of the five email prefixes.
WebsiteTitle == <<"O", "w", "n", "e", "r">>
LinkedinTitle == TitleCEO
DirectoryTitle == <<"M", "a", "n", "a", "g", "e", "r">>
NewsTitle == <<"F", "o", "u", "n", "d", "e", "r">>
EmailPrefixes == { <<"i", "n", "f", "o">>, <<"s", "a", "l", "e", "s">> }

\* Bound of the extraction model: the most contacts a website gives, of the
\* random.randint(1, 3) of the code.
MaxWebsiteContacts == 2

Alphanumeric ==
    {LowerCase[k] : k \in 1..26} \cup {UpperCase[k] : k \in 1..26}
    \cup {"0", "1", "2", "3", "4", "5", "6", "7", "8", "9"}

\* re.sub(r'[^a-zA-Z0-9]', '', text)
RECURSIVE keep_alphanumeric(_)
keep_alphanumeric(text) ==
    IF text = <<>>
    THEN <<>>
    ELSE (IF Head(text) \in Alphanumeric THEN <<Head(text)>> ELSE <<>>)
         \o keep_alphanumeric(Tail(text))

\* _generate_business_email with the prefix random.choice picked.
generate_business_email(business_name, prefix) ==
    prefix \o <<"@">> \o slice_to(keep_alphanumeric(lower(business_name)), 10)
           \o <<".", "c", "o", "m">>

\* A profile with a lead, and the profile ProfileBuilder.build_profile builds,
\* which has no attribute "lead".
Profile(name, number, phone, website, social_profiles, directory_listings, news) ==
    [has_lead |-> TRUE,
     lead |-> [name |-> name, business_id |-> <<"google_places", number>>,
               phone |-> phone, website |-> website],
     social_profiles |-> social_profiles,
     directory_listings |-> directory_listings,
     news_articles |-> news]

ProfileWithoutLead(name, number) ==
    [Profile(name, number, <<>>, <<>>, <<>>, {}, 0) EXCEPT !.has_lead = FALSE]

TestWebsite == <<"h", "t", "t", "p", ":", "/", "/", "a", ".", "c", "o">>
TestLeadName == <<"A", "-", "1", " ", "C", "a", "f", "e">>

\* The profiles a call may be given at place k: one without a lead; one with a
\* website, a phone and a directory listing (at the first place only); one with a
\* linkedin profile and a news article; one with nothing to extract from.  Places
\* behind the second hold a profile without a lead.
TestProfiles(k) ==
    { ProfileWithoutLead(TestLeadName, 1000 + k) }
    \cup (IF k = 1
          THEN { Profile(TestLeadName, 1000 + k, TestPhone, TestWebsite, <<>>,
                         {"better_business_bureau"}, 0) }
          ELSE {})
    \cup (IF k <= 2
          THEN { Profile(TestLeadName, 1000 + k, <<>>, <<>>,
                         <<"facebook", "linkedin">>, {}, 1),
                 Profile(TestLeadName, 1000 + k, <<>>, <<>>, <<>>, {}, 0) }
          ELSE {})

\* The identity the result of a profile carries.  The mutant for C20 gives the
\* result an identity of its own.
result_business_id_regenerated(profile) == <<profile.lead.business_id[1], 9999>>

\* business_id=profile.lead.business_id
result_business_id(profile) == profile.lead.business_id

\* result.all_contacts.append(contact)
append_contact(result, contact) ==
    [result EXCEPT
       !.all_contacts = Append(result.all_contacts,
                               [contact EXCEPT !.id = Len(result.all_contacts) + 1])]

RECURSIVE append_contacts(_, _)
append_contacts(result, contacts) ==
    IF contacts = <<>>
    THEN result
    ELSE append_contacts(append_contact(result, Head(contacts)), Tail(contacts))

\* result.sources_used.append(source) under a condition.
use_source_if(cond, result, source) ==
    IF cond
    THEN [result EXCEPT !.sources_used = Append(result.sources_used, source)]
    ELSE result

\* The result of a task that has built none.
NoExtraction == ContactExtractionResult(<<"none", 0>>, <<>>, <<>>)

InitExtractor ==
    /\ ex_pc = "idle"
    /\ \E n \in 0..MaxProfiles :
          ex_profiles \in {ps \in [1..n -> UNION {TestProfiles(k) : k \in 1..n}] :
                              \A k \in 1..n : ps[k] \in TestProfiles(k)}
    /\ ex_task = [i \in 1..Len(ex_profiles) |-> "created"]
    /\ ex_sub = [i \in 1..Len(ex_profiles) |-> [x \in Extractors |-> "pending"]]
    /\ ex_result = [i \in 1..Len(ex_profiles) |-> NoExtraction]
    /\ valid_results = <<>>
    /\ valid_tasks = <<>>
    /\ ex_warnings = 0

\* The extraction model at rest, for the specifications that do not run it.
IdleExtractor ==
    /\ ex_pc = "idle"
    /\ ex_profiles = <<>>
    /\ ex_task = <<>>
    /\ ex_sub = <<>>
    /\ ex_result = <<>>
    /\ valid_results = <<>>
    /\ valid_tasks = <<>>
    /\ ex_warnings = 0

\* extract_contacts up to its await: one coroutine per profile goes to gather.
extract_contacts_call ==
    /\ ex_pc = "idle"
    /\ ex_pc' = "gathering"
    /\ UNCHANGED <<ex_profiles, ex_task, ex_sub, ex_result, valid_results, valid_tasks,
                   ex_warnings>>
    /\ UNCHANGED rlVars

\* _extract_single_business_contacts up to its await: reading profile.lead raises
\* for a profile without a lead; otherwise the result container is created and
\* the four extractors go to gather.
extract_single_start(i) ==
    /\ ex_pc = "gathering"
    /\ ex_task[i] = "created"
    /\ IF ex_profiles[i].has_lead
       THEN /\ ex_task' = [ex_task EXCEPT ![i] = "running"]
            /\ ex_result' = [ex_result EXCEPT ![i] =
                   ContactExtractionResult(result_business_id(ex_profiles[i]),
                                           <<>>, <<>>)]
       ELSE /\ ex_task' = [ex_task EXCEPT ![i] = "failed"]
            /\ ex_result' = ex_result
    /\ UNCHANGED <<ex_pc, ex_profiles, ex_sub, valid_results, valid_tasks, ex_warnings>>
    /\ UNCHANGED rlVars

\* Whether an extractor returns at once: the profile has nothing of its kind.
returns_early(profile, x) ==
    CASE x = "website" -> profile.lead.website = <<>>
      [] x = "social_media" -> profile.social_profiles = <<>>
      [] x = "directories" -> profile.directory_listings = {}
      [] x = "news" -> profile.news_articles = 0

\* The source an extractor names to the rate limiter.
extractor_source(x) ==
    CASE x = "website" -> "website_scraping"
      [] x = "social_media" -> "social_media"
      [] x = "directories" -> "directories"
      [] x = "news" -> "news_analysis"

\* An extractor of task i runs to its end: it returns at once, or takes a token
\* of its source and, with simulation on, leaves the result as extracted.
extractor_step(i, x, extracted) ==
    /\ ex_pc = "gathering"
    /\ ex_task[i] = "running"
    /\ ex_sub[i][x] = "pending"
    /\ ex_sub' = [ex_sub EXCEPT ![i][x] = "done"]
    /\ IF returns_early(ex_profiles[i], x)
       THEN UNCHANGED <<buckets, ex_result>>
       ELSE LET r == RateLimiter_acquire(buckets, extractor_source(x), 1, now)
            IN  /\ r.ok
                /\ buckets' = r.buckets
                /\ ex_result' = IF ENABLE_SIMULATION
                                THEN [ex_result EXCEPT ![i] = extracted]
                                ELSE ex_result
    /\ UNCHANGED <<ex_pc, ex_profiles, ex_task, valid_results, valid_tasks, ex_warnings>>
    /\ UNCHANGED <<now, pc, call, wake_at, calls, last_call, granted>>

\* _extract_from_website
extract_from_website(i) ==
    LET profile == ex_profiles[i]
    IN  \E n \in 1..MaxWebsiteContacts :
          \E pick \in [1..n -> EmailPrefixes] :
            LET contacts == [k \in 1..n |->
                    Contact(WebsiteTitle,
                            generate_business_email(profile.lead.name, pick[k]),
                            profile.lead.phone, <<>>, "website")]
                filled == append_contacts(ex_result[i], contacts)
            IN  extractor_step(i, "website",
                    use_source_if(filled.all_contacts # <<>>, filled, "website"))

\* _extract_from_social_media
extract_from_social_media(i) ==
    LET profile == ex_profiles[i]
        first_two == slice_to(profile.social_profiles, 2)
        linkedin == SelectSeq(first_two, LAMBDA platform : platform = "linkedin")
    IN  \E prefix \in EmailPrefixes :
            LET contacts == [k \in 1..Len(linkedin) |->
                    Contact(LinkedinTitle,
                            generate_business_email(profile.lead.name, prefix),
                            <<>>, TestUrl, "linkedin")]
                filled == append_contacts(ex_result[i], contacts)
            IN  extractor_step(i, "social_media",
                    use_source_if(
                        \E k \in 1..Len(profile.social_profiles) :
                            profile.social_profiles[k] = "linkedin",
                        filled, "social_media"))

\* _extract_from_directories
extract_from_directories(i) ==
    LET profile == ex_profiles[i]
        listed == "better_business_bureau" \in profile.directory_listings
        contact == Contact(DirectoryTitle, <<>>, profile.lead.phone, <<>>,
                           "better_business_bureau")
    IN  extractor_step(i, "directories",
            IF listed
            THEN use_source_if(TRUE, append_contact(ex_result[i], contact),
                               "directories")
            ELSE ex_result[i])

\* _extract_from_news
extract_from_news(i) ==
    LET profile == ex_profiles[i]
        contact == Contact(NewsTitle, <<>>, <<>>, <<>>, "news_article")
    IN  \E found \in BOOLEAN :
            LET filled == IF found /\ profile.news_articles > 0
                          THEN append_contact(ex_result[i], contact)
                          ELSE ex_result[i]
            IN  extractor_step(i, "news",
                    use_source_if(
                        /\ filled.all_contacts # <<>>
                        /\ filled.sources_used # <<>>
                        /\ filled.sources_used[Len(filled.sources_used)]
                              # "news_analysis",
                        filled, "news_analysis"))

\* An extractor that has work to do raises in it, after it has taken its token
\* and before it has changed the result; gather keeps the exception
\* (return_exceptions=True).
extractor_raises(i, x) ==
    /\ ex_pc = "gathering"
    /\ ex_task[i] = "running"
    /\ ex_sub[i][x] = "pending"
    /\ ~returns_early(ex_profiles[i], x)
    /\ ex_sub' = [ex_sub EXCEPT ![i][x] = "done"]
    /\ LET r == RateLimiter_acquire(buckets, extractor_source(x), 1, now)
       IN  r.ok /\ buckets' = r.buckets
    /\ UNCHANGED <<ex_pc, ex_profiles, ex_task, ex_result, valid_results, valid_tasks,
                   ex_warnings>>
    /\ UNCHANGED <<now, pc, call, wake_at, calls, last_call, granted>>

\* The mutant of extract_single_finish for C26: the scores are computed as soon as
\* one extractor has finished.
extract_single_finish_first_completed(i) ==
    /\ ex_pc = "gathering"
    /\ ex_task[i] = "running"
    /\ \E x \in Extractors : ex_sub[i][x] # "pending"
    /\ ex_task' = [ex_task EXCEPT ![i] = "done"]
    /\ LET scored == score_decision_makers(ex_result[i])
       IN  ex_result' = [ex_result EXCEPT ![i] =
               [scored EXCEPT !.extraction_score = calculate_extraction_score(scored)]]
    /\ UNCHANGED <<ex_pc, ex_profiles, ex_sub, valid_results, valid_tasks, ex_warnings>>
    /\ UNCHANGED rlVars

\* _extract_single_business_contacts after its gather: the scores, "return result".
extract_single_finish(i) ==
    /\ ex_pc = "gathering"
    /\ ex_task[i] = "running"
    /\ \A x \in Extractors : ex_sub[i][x] # "pending"
    /\ ex_task' = [ex_task EXCEPT ![i] = "done"]
    /\ LET scored == score_decision_makers(ex_result[i])
       IN  ex_result' = [ex_result EXCEPT ![i] =
               [scored EXCEPT !.extraction_score = calculate_extraction_score(scored)]]
    /\ UNCHANGED <<ex_pc, ex_profiles, ex_sub, valid_results, valid_tasks, ex_warnings>>
    /\ UNCHANGED rlVars

\* The tasks whose result is a ContactExtractionResult, in the order of gather.
RECURSIVE valid_from(_, _)
valid_from(tasks, i) ==
    IF i > Len(tasks)
    THEN <<>>
    ELSE (IF tasks[i] = "done" THEN <<i>> ELSE <<>>) \o valid_from(tasks, i + 1)

\* extract_contacts after its gather: "Filter out any errors".
extract_contacts_return ==
    /\ ex_pc = "gathering"
    /\ \A i \in 1..Len(ex_profiles) : ex_task[i] \in {"done", "failed"}
    /\ LET kept == valid_from(ex_task, 1)
       IN  /\ valid_tasks' = kept
           /\ valid_results' = [j \in 1..Len(kept) |-> ex_result[kept[j]]]
           /\ ex_warnings' = Len(ex_profiles) - Len(kept)
    /\ ex_pc' = "returned"
    /\ UNCHANGED <<ex_profiles, ex_task, ex_sub, ex_result>>
    /\ UNCHANGED rlVars

(***************************************************************************)
(* Contact extraction: the claims.                                         *)
(***************************************************************************)
\* C13, as claimed: extract_contacts returns one result per profile, also when an
\* extractor or the extraction of one profile fails.
C13_OneResultPerProfile ==
    ex_pc = "returned" => Len(valid_results) = Len(ex_profiles)

\* C19, as claimed: the contacts kept for one entity hold no two contacts with the
\* same populated email and no two with the same populated phone.
C19_NoDuplicateContacts ==
    ex_pc = "returned" =>
        \A j \in 1..Len(valid_results) :
            \A a, b \in 1..Len(valid_results[j].all_contacts) :
                a # b =>
                    LET ca == valid_results[j].all_contacts[a]
                        cb == valid_results[j].all_contacts[b]
                    IN  /\ ~(ca.email # <<>> /\ ca.email = cb.email)
                        /\ ~(ca.phone # <<>> /\ ca.phone = cb.phone)

\* C20: every result, returned or under way, carries the business_id of the
\* profile's lead it was built from, and so an identity of a given entity.
C20_IdentityCarried ==
    /\ \A i \in 1..Len(ex_profiles) :
          ex_task[i] \in {"running", "done"} =>
              ex_result[i].business_id = ex_profiles[i].lead.business_id
    /\ ex_pc = "returned" =>
          /\ Len(valid_tasks) = Len(valid_results)
          /\ \A j \in 1..Len(valid_results) :
                /\ valid_results[j].business_id
                      = ex_profiles[valid_tasks[j]].lead.business_id
                /\ \E i \in 1..Len(ex_profiles) :
                      /\ ex_profiles[i].has_lead
                      /\ ex_profiles[i].lead.business_id = valid_results[j].business_id

\* C20's case: two profiles with different identities, the first with contacts,
\* have their results returned in the order of the profiles.
C20_Witness ==
    /\ ex_pc = "returned"
    /\ Len(valid_results) = 2
    /\ valid_results[1].business_id # valid_results[2].business_id
    /\ valid_results[1].all_contacts # <<>>

\* Whether the scoring of _extract_single_business_contacts has left its mark on a
\* result: a score or a decision maker that the container does not start with.
Scored(result) ==
    \/ result.extraction_score # DefaultScore
    \/ result.decision_makers # <<>>
    \/ \E k \in 1..Len(result.all_contacts) :
          result.all_contacts[k].decision_maker_score # DefaultScore

\* C26: within the extraction of one entity, scoring happens strictly after the
\* fan-out barrier.  The scores are computed in the step that ends the task, when
\* each of the four source tasks has finished, by returning or by raising; until
\* then the result carries no score; and once the task has ended, no step changes
\* its result, so nothing is appended to all_contacts or sources_used afterwards.
C26_ScoringAfterBarrier ==
    /\ [](\A i \in 1..Len(ex_profiles) :
            /\ ex_task[i] = "done" => \A x \in Extractors : ex_sub[i][x] = "done"
            /\ ex_task[i] \in {"created", "running", "failed"} => ~Scored(ex_result[i]))
    /\ [][\A i \in 1..Len(ex_profiles) :
            /\ ex_task[i] = "done" => ex_result'[i] = ex_result[i]
            /\ (ex_task[i] = "running" /\ ex_task'[i] = "done")
                => /\ \A x \in Extractors : ex_sub[i][x] = "done"
                   /\ Len(ex_result'[i].all_contacts) = Len(ex_result[i].all_contacts)
                   /\ ex_result'[i].sources_used = ex_result[i].sources_used]_vars

\* C26's case: a task has ended with scored contacts of two sources while the task
\* of another profile still has a source task under way.
C26_Witness ==
    \E i, j \in 1..Len(ex_profiles) :
        /\ ex_task[i] = "done"
        /\ Len(ex_result[i].sources_used) >= 2
        /\ ex_result[i].decision_makers # <<>>
        /\ Scored(ex_result[i])
        /\ ex_task[j] = "running"
        /\ \E x \in Extractors : ex_sub[j][x] = "pending"

\* The tag a source's extractor gives its contacts (Contact.source), by the name
\* the extractor lists in sources_used.
contact_tag(source_name) ==
    CASE source_name = "website" -> "website"
      [] source_name = "social_media" -> "linkedin"
      [] source_name = "directories" -> "better_business_bureau"
      [] source_name = "news_analysis" -> "news_article"

SourceNames == {"website", "social_media", "directories", "news_analysis"}

\* C27, as claimed: for every interleaving of the four source tasks, after the
\* extraction of one entity a source name is in sources_used if and only if that
\* source contributed at least one contact to all_contacts, and it is listed at
\* most once.
C27_ProvenanceAttributable ==
    \A i \in 1..Len(ex_profiles) :
        ex_task[i] = "done" =>
            LET result == ex_result[i]
                places(s) == {k \in 1..Len(result.sources_used) :
                                 result.sources_used[k] = s}
            IN  \A s \in SourceNames :
                    /\ Cardinality(places(s)) <= 1
                    /\ places(s) # {} <=>
                         \E k \in 1..Len(result.all_contacts) :
                             result.all_contacts[k].source = contact_tag(s)

(***************************************************************************)
(* The export (src/export/export_manager.py) at the end of the pipeline    *)
(* the tests run: search_businesses, one profile per lead,                 *)
(* extract_contacts, export_campaign.  A profile is its lead, the field    *)
(* the export reads to find the profile's contact result.                  *)
(***************************************************************************)

\* Bound of the export model: the largest limit given to search_businesses.
MaxExportLimit == 4

\* The loop of _find_contact_result from the k-th result on: the place of the first
\* result whose business_id is the profile's, 0 for "return None".
RECURSIVE find_contact_result_from(_, _, _)
find_contact_result_from(profile, results, k) ==
    IF k > Len(results) THEN 0
    ELSE IF results[k].business_id = profile.lead.business_id THEN k
         ELSE find_contact_result_from(profile, results, k + 1)

\* ExportManager._find_contact_result
find_contact_result(profile, results) == find_contact_result_from(profile, results, 1)

\* What search_businesses returns for a limit, given which adapters succeed and the
\* random numbers they draw: the results merged, deduplicated and cut to the limit.
discovered_leads(lim, oks, ids) ==
    LET results == [i \in Adapters |->
                       IF oks[i]
                       THEN [ok |-> TRUE, leads |-> simulated_leads(i, lim, ids[i])]
                       ELSE [ok |-> FALSE, leads |-> <<>>]]
    IN  limit_unique(combine_results(gather(results).results).all_leads, lim)

\* The places of seq other than skip, in order.
RECURSIVE places_but(_, _, _)
places_but(n, skip, k) ==
    IF k > n THEN <<>>
    ELSE IF k = skip THEN places_but(n, skip, k + 1)
         ELSE <<k>> \o places_but(n, skip, k + 1)

InitExport ==
    /\ export_pc = "idle"
    /\ export_leads = <<>>
    /\ export_profiles = <<>>
    /\ contact_results = <<>>
    /\ results_of = <<>>
    /\ paired = <<>>

\* The export model at rest, for the specifications that do not run it.
IdleExport == InitExport

\* search_businesses(industry, location, limit) returns its leads.
export_search_businesses ==
    /\ export_pc = "idle"
    /\ \E lim \in 1..MaxExportLimit : \E oks \in [Adapters -> BOOLEAN] :
       \E ids1 \in [1..lead_count(1, lim) -> RandomIds] :
       \E ids2 \in [1..lead_count(2, lim) -> RandomIds] :
       \E ids3 \in [1..lead_count(3, lim) -> RandomIds] :
       \E ids4 \in [1..lead_count(4, lim) -> RandomIds] :
          export_leads' = discovered_leads(lim, oks, <<ids1, ids2, ids3, ids4>>)
    /\ export_pc' = "discovered"
    /\ UNCHANGED <<export_profiles, contact_results, results_of, paired>>

\* One profile is built for each lead, in the order of the leads.
export_build_profiles ==
    /\ export_pc = "discovered"
    /\ export_profiles' = [k \in 1..Len(export_leads) |-> [lead |-> export_leads[k]]]
    /\ export_pc' = "built"
    /\ UNCHANGED <<export_leads, contact_results, results_of, paired>>

\* extract_contacts(profiles) returns: one result per profile in the order of the
\* profiles, each with its profile's business_id, less the result of a task that
\* raised (skip, 0 when none did).
export_extract_contacts ==
    /\ export_pc = "built"
    /\ \E skip \in 0..Len(export_profiles) :
          LET of == places_but(Len(export_profiles), skip, 1)
          IN  /\ results_of' = of
              /\ contact_results' =
                    [j \in 1..Len(of) |->
                        ContactExtractionResult(result_business_id(export_profiles[of[j]]),
                                                <<>>, <<>>)]
    /\ export_pc' = "extracted"
    /\ UNCHANGED <<export_leads, export_profiles, paired>>

\* export_campaign: "for profile in profiles: contact_result =
\* self._find_contact_result(profile, contact_results)"; no await, one step.
export_campaign ==
    /\ export_pc = "extracted"
    /\ paired' = [i \in 1..Len(export_profiles) |->
                    find_contact_result(export_profiles[i], contact_results)]
    /\ export_pc' = "exported"
    /\ UNCHANGED <<export_leads, export_profiles, contact_results, results_of>>

(***************************************************************************)
(* The export: the claims.                                                 *)
(***************************************************************************)

\* C31: at export every profile is paired with the contact result that was built
\* from that same profile: the result _find_contact_result returns for a profile,
\* if any, was extracted from that profile and from no other, and a profile that
\* has a result is paired with it.
C31_PairedWithOwnResult ==
    export_pc = "exported" =>
        \A i \in 1..Len(export_profiles) :
            /\ paired[i] # 0 => results_of[paired[i]] = i
            /\ (\E j \in 1..Len(results_of) : results_of[j] = i) => paired[i] # 0

(***************************************************************************)
(* The specifications.  Each runs one part of the program; the others rest.*)
(***************************************************************************)
ExportRest == <<rlVars, ddVars, seVars, campVars, scVars, exVars, tbVars>>

InitSpecExport ==
    InitRateLimiter /\ IdleDedup /\ IdleDiscovery /\ IdleCampaign /\ IdleScoring
    /\ IdleExtractor /\ IdleBucket /\ InitExport

NextSpecExport ==
    \/ export_search_businesses /\ UNCHANGED ExportRest
    \/ export_build_profiles /\ UNCHANGED ExportRest
    \/ export_extract_contacts /\ UNCHANGED ExportRest
    \/ export_campaign /\ UNCHANGED ExportRest

SpecExport == InitSpecExport /\ [][NextSpecExport]_vars

InitSpecRateLimiter == InitRateLimiter /\ IdleDedup /\ IdleDiscovery /\ IdleCampaign /\ IdleScoring
    /\ IdleExtractor /\ IdleBucket /\ IdleExport

NextSpecRateLimiter ==
    \/ Tick /\ UNCHANGED <<ddVars, seVars, campVars, scVars, exVars, tbVars, xpVars>>
    \/ (\E p \in Callers : RateLimiter_acquire_call(p))
          /\ UNCHANGED <<ddVars, seVars, campVars, scVars, exVars, tbVars, xpVars>>
    \/ (\E p \in Callers : RateLimiter_wait_for_tokens_call(p))
          /\ UNCHANGED <<ddVars, seVars, campVars, scVars, exVars, tbVars, xpVars>>
    \/ (\E p \in Callers : TokenBucket_wait_for_tokens_retry(p))
          /\ UNCHANGED <<ddVars, seVars, campVars, scVars, exVars, tbVars, xpVars>>

SpecRateLimiter == InitSpecRateLimiter /\ [][NextSpecRateLimiter]_vars

InitSpecDedup == InitRateLimiter /\ InitDedup /\ IdleDiscovery /\ IdleCampaign /\ IdleScoring
    /\ IdleExtractor /\ IdleBucket /\ IdleExport

NextSpecDedup ==
    \/ apply_deduplicate_leads /\ UNCHANGED <<rlVars, seVars, campVars, scVars, exVars, tbVars, xpVars>>
    \/ apply_deduplicate_leads_again /\ UNCHANGED <<rlVars, seVars, campVars, scVars, exVars, tbVars, xpVars>>
    \/ apply_limit_unique /\ UNCHANGED <<rlVars, seVars, campVars, scVars, exVars, tbVars, xpVars>>

SpecDedup == InitSpecDedup /\ [][NextSpecDedup]_vars

InitSpecDiscovery == InitDiscovery /\ IdleDedup /\ IdleCampaign /\ IdleScoring
    /\ IdleExtractor /\ IdleBucket /\ IdleExport

NextSpecDiscovery ==
    \/ adapters_sleep /\ UNCHANGED <<ddVars, campVars, scVars, exVars, tbVars, xpVars>>
    \/ search_businesses_call /\ UNCHANGED <<ddVars, campVars, scVars, exVars, tbVars, xpVars>>
    \/ (\E i \in Adapters : adapter_wait_for_tokens(i)) /\ UNCHANGED <<ddVars, campVars, scVars, exVars, tbVars, xpVars>>
    \/ (\E i \in Adapters : adapter_wait_for_tokens_retry(i))
          /\ UNCHANGED <<ddVars, campVars, scVars, exVars, tbVars, xpVars>>
    \/ (\E i \in Adapters : adapter_return(i)) /\ UNCHANGED <<ddVars, campVars, scVars, exVars, tbVars, xpVars>>
    \/ (\E i \in Adapters : adapter_raise(i)) /\ UNCHANGED <<ddVars, campVars, scVars, exVars, tbVars, xpVars>>
    \/ gather_complete /\ UNCHANGED <<ddVars, campVars, scVars, exVars, tbVars, xpVars>>

SpecDiscovery == InitSpecDiscovery /\ [][NextSpecDiscovery]_vars

InitSpecCampaign ==
    InitRateLimiter /\ IdleDedup /\ IdleDiscovery /\ InitCampaign /\ IdleScoring
    /\ IdleExtractor /\ IdleBucket /\ IdleExport

NextSpecCampaign ==
    \/ run_campaign_call /\ UNCHANGED <<rlVars, ddVars, seVars, scVars, exVars, tbVars, xpVars>>
    \/ search_returns /\ UNCHANGED <<rlVars, ddVars, seVars, scVars, exVars, tbVars, xpVars>>
    \/ search_raises /\ UNCHANGED <<rlVars, ddVars, seVars, scVars, exVars, tbVars, xpVars>>
    \/ build_profile_call /\ UNCHANGED <<rlVars, ddVars, seVars, scVars, exVars, tbVars, xpVars>>
    \/ build_profile_returns /\ UNCHANGED <<rlVars, ddVars, seVars, scVars, exVars, tbVars, xpVars>>
    \/ build_profile_raises /\ UNCHANGED <<rlVars, ddVars, seVars, scVars, exVars, tbVars, xpVars>>
    \/ extract_contacts_returns /\ UNCHANGED <<rlVars, ddVars, seVars, scVars, exVars, tbVars, xpVars>>
    \/ extract_contacts_raises /\ UNCHANGED <<rlVars, ddVars, seVars, scVars, exVars, tbVars, xpVars>>
    \/ extraction_done /\ UNCHANGED <<rlVars, ddVars, seVars, scVars, exVars, tbVars, xpVars>>
    \/ extraction_totals_raise /\ UNCHANGED <<rlVars, ddVars, seVars, scVars, exVars, tbVars, xpVars>>
    \/ export_returns /\ UNCHANGED <<rlVars, ddVars, seVars, scVars, exVars, tbVars, xpVars>>
    \/ export_raises /\ UNCHANGED <<rlVars, ddVars, seVars, scVars, exVars, tbVars, xpVars>>

SpecCampaign == InitSpecCampaign /\ [][NextSpecCampaign]_vars

InitSpecScoring ==
    InitRateLimiter /\ IdleDedup /\ IdleDiscovery /\ IdleCampaign /\ InitScoring
    /\ IdleExtractor /\ IdleBucket /\ IdleExport

NextSpecScoring ==
    \/ apply_score_decision_makers /\ UNCHANGED <<rlVars, ddVars, seVars, campVars, exVars, tbVars, xpVars>>
    \/ apply_calculate_extraction_score
          /\ UNCHANGED <<rlVars, ddVars, seVars, campVars, exVars, tbVars, xpVars>>

SpecScoring == InitSpecScoring /\ [][NextSpecScoring]_vars

InitSpecExtractor ==
    /\ InitRateLimiter /\ IdleDedup /\ IdleCampaign /\ IdleScoring /\ InitExtractor /\ IdleBucket /\ IdleExport
    /\ ENABLE_SIMULATION \in BOOLEAN
    /\ limit = 1
    /\ se_pc = "idle"
    /\ task = [i \in Adapters |-> "new"]
    /\ task_wake = [i \in Adapters |-> 0]
    /\ task_result = [i \in Adapters |-> NoResult]
    /\ all_leads = <<>>
    /\ final_leads = <<>>
    /\ warnings = 0
    /\ finished = <<>>
    /\ consumed = [i \in Adapters |-> [s \in AllSources |-> 0]]

ExtractorRest == <<ddVars, seVars, campVars, scVars, tbVars, xpVars>>

NextSpecExtractor ==
    \/ extract_contacts_call /\ UNCHANGED ExtractorRest
    \/ (\E i \in 1..Len(ex_profiles) : extract_single_start(i))
          /\ UNCHANGED ExtractorRest
    \/ (\E i \in 1..Len(ex_profiles) : extract_from_website(i))
          /\ UNCHANGED ExtractorRest
    \/ (\E i \in 1..Len(ex_profiles) : extract_from_social_media(i))
          /\ UNCHANGED ExtractorRest
    \/ (\E i \in 1..Len(ex_profiles) : extract_from_directories(i))
          /\ UNCHANGED ExtractorRest
    \/ (\E i \in 1..Len(ex_profiles) : extract_from_news(i))
          /\ UNCHANGED ExtractorRest
    \/ (\E i \in 1..Len(ex_profiles), x \in Extractors : extractor_raises(i, x))
          /\ UNCHANGED ExtractorRest
    \/ (\E i \in 1..Len(ex_profiles) : extract_single_finish(i))
          /\ UNCHANGED ExtractorRest
    \/ extract_contacts_return /\ UNCHANGED ExtractorRest

SpecExtractor == InitSpecExtractor /\ [][NextSpecExtractor]_vars
InitSpecTokenBucket ==
    InitRateLimiter /\ IdleDedup /\ IdleDiscovery /\ IdleCampaign /\ IdleScoring
    /\ IdleExtractor /\ InitBucket /\ IdleExport

BucketRest == <<rlVars, ddVars, seVars, campVars, scVars, exVars, xpVars>>

NextSpecTokenBucket ==
    \/ TokenBucket_construct /\ UNCHANGED BucketRest
    \/ bucket_sleep /\ UNCHANGED BucketRest
    \/ (\E p \in BucketCallers : TokenBucket_acquire_call(p)) /\ UNCHANGED BucketRest
    \/ (\E p \in BucketCallers : TokenBucket_wait_for_tokens_call(p))
          /\ UNCHANGED BucketRest
    \/ (\E p \in BucketCallers : TokenBucket_wait_for_tokens_turn(p))
          /\ UNCHANGED BucketRest

SpecTokenBucket == InitSpecTokenBucket /\ [][NextSpecTokenBucket]_vars

\* The single bucket under fair scheduling: the clock moves on, and the event loop
\* resumes a coroutine whose sleep is over.
SpecTokenBucketFair ==
    /\ InitSpecTokenBucket
    /\ [][NextSpecTokenBucket]_vars
    /\ WF_vars(bucket_sleep /\ UNCHANGED BucketRest)
    /\ \A p \in BucketCallers :
          WF_vars(TokenBucket_wait_for_tokens_turn(p) /\ UNCHANGED BucketRest)
====
